---- MODULE Spec2Model ----
(***************************************************************************)
(* A model of the review ledger (services/review/queue.py), the action     *)
(* executor (services/actions/executor.py) and the privacy router          *)
(* (services/llm/router.py) with its two callers, the email classifier     *)
(* and the bookmark distiller.                                             *)
(*                                                                         *)
(* The specifications share the variables:                                 *)
(*   Spec         the ledger and the executor, under a fixed configuration *)
(*   SpecCreate   batch creation with categories in either letter case     *)
(*   SpecLoop     the executor's loop on the approved, unexecuted actions  *)
(*                of one reviewed batch                                    *)
(*   SpecPass     one executor pass step by step, up to its commit         *)
(*   SpecConc     two approve_batch requests on one batch, interleaved at  *)
(*                their awaits                                             *)
(*   SpecRouter   the router under every configuration, the ledger empty   *)
(*   SpecClassify the classifier and the distiller on every kind of model  *)
(*                output                                                   *)
(*   SpecIntake   classified messages stored as review batches             *)
(*   SpecRun      one executor pass step by step, scheduled fairly         *)
(*   SpecRace     two executor passes on one batch, interleaved            *)
(*   SpecComplete the router's pass-through with a named provider          *)
(*   SpecFrame    creation, approval and effective passes together         *)
(*   SpecOrder    two router requests interleaved at their provider calls  *)
(***************************************************************************)
EXTENDS Integers, Sequences, FiniteSets, TLC

VARIABLES
    batches,      \* review_batches rows, index = id        (database.py 87-98)
    items,        \* content_items rows, index = id         (database.py 61-84)
    actions,      \* proposed_actions rows, index = id      (database.py 101-115)
    calls,        \* calls made to the outside (mail capability, http), in order
    lastOp,       \* the last ledger/executor request, its inputs and its return
    sessions,     \* approval requests in progress, each with what its session loaded
    settings,     \* config.settings.settings               (settings.py 13-28)
    llm_log,      \* provider calls made by the last router request, in order
    llm_out       \* the last router request, its inputs and its return

ledgerVars == <<batches, items, actions, calls, lastOp, sessions>>
ledgerVarsButSessions == <<batches, items, actions, calls, lastOp>>
routerVars == <<settings, llm_log, llm_out>>
vars == <<batches, items, actions, calls, lastOp, sessions, settings, llm_log, llm_out>>

\* Python's None, and the three values of a nullable Boolean column.
None == "None"
PyTrue == "True"
PyFalse == "False"

-----------------------------------------------------------------------------
(* Python strings, as sequences of characters                              *)

Lowers == << "a", "b", "c", "d", "e", "f", "g", "h", "i", "j", "k", "l", "m",
             "n", "o", "p", "q", "r", "s", "t", "u", "v", "w", "x", "y", "z" >>
Uppers == << "A", "B", "C", "D", "E", "F", "G", "H", "I", "J", "K", "L", "M",
             "N", "O", "P", "Q", "R", "S", "T", "U", "V", "W", "X", "Y", "Z" >>

\* str.upper()
UpperChar(c) ==
    IF \E i \in DOMAIN Lowers : Lowers[i] = c
    THEN Uppers[CHOOSE i \in DOMAIN Lowers : Lowers[i] = c]
    ELSE c
Upper(text) == [i \in 1..Len(text) |-> UpperChar(text[i])]

\* str.lower()
LowerChar(c) ==
    IF \E i \in DOMAIN Uppers : Uppers[i] = c
    THEN Lowers[CHOOSE i \in DOMAIN Uppers : Uppers[i] = c]
    ELSE c
Lower(text) == [i \in 1..Len(text) |-> LowerChar(text[i])]

\* The order of the code points of the letters: every upper-case letter
\* comes before every lower-case letter.
CodePoints == Uppers \o Lowers
Ord(c) == CHOOSE i \in DOMAIN CodePoints : CodePoints[i] = c

\* a < b on Python strings of letters: the first differing character
\* decides, a proper prefix is smaller.
StrLess(a, b) ==
    \E i \in 1..Len(b) :
        /\ \A k \in 1..(i - 1) : k <= Len(a) /\ a[k] = b[k]
        /\ (i > Len(a) \/ Ord(a[i]) < Ord(b[i]))

-----------------------------------------------------------------------------
(* Bounds of the model                                                     *)

\* batches created in one behaviour
MaxBatches == 2
\* length of the log of outside calls
MaxCalls == 4

-----------------------------------------------------------------------------
(* services/database.py: the enumerations                                  *)

ReviewStatus == {"pending", "approved", "rejected", "partial"}

ActionType == {"label", "archive", "delete", "unsubscribe", "draft_reply",
               "mark_read", "bookmark_tag", "publish_summary"}

-----------------------------------------------------------------------------
(* services/review/queue.py                                                *)

\* A variant of ACTION_MAP in which "keep" maps to an action kind.
ACTION_MAP_KeepArchives(action_name) ==
    CASE action_name = "archive"     -> "archive"
      [] action_name = "delete"      -> "delete"
      [] action_name = "unsubscribe" -> "unsubscribe"
      [] action_name = "label"       -> "label"
      [] action_name = "draft_reply" -> "draft_reply"
      [] action_name = "mark_read"   -> "mark_read"
      [] action_name = "keep"        -> "archive"
      [] OTHER                       -> None

\* ACTION_MAP.get(action_name): None for "keep" and for every unknown name.
ACTION_MAP(action_name) ==
    CASE action_name = "archive"     -> "archive"
      [] action_name = "delete"      -> "delete"
      [] action_name = "unsubscribe" -> "unsubscribe"
      [] action_name = "label"       -> "label"
      [] action_name = "draft_reply" -> "draft_reply"
      [] action_name = "mark_read"   -> "mark_read"
      [] OTHER                       -> None

\* f"automate/{category.lower()}" (queue.py 81), on the category names of
\* the model.
LabelFor(cat) ==
    CASE cat = "JUNK"     -> "automate/junk"
      [] cat = "PERSONAL" -> "automate/personal"
      [] cat = "ERROR"    -> "automate/error"
      [] cat = "FYI"      -> "automate/fyi"

\* The action_params built for one proposed action (queue.py 79-83); None
\* stands for a key the dict does not have.
ActionParams(action_type, cls_result) ==
    [label |-> IF action_type = "label" THEN LabelFor(cls_result.category) ELSE None,
     unsubscribe_url |-> IF action_type = "unsubscribe"
                            /\ cls_result.unsubscribe_url # None
                           THEN cls_result.unsubscribe_url ELSE None,
     reply_body |-> None]

\* A variant of NewAction whose rows are born approved.
NewAction_BornApproved(batch_id, content_item_id, action_type, cls_result) ==
    [batch_id        |-> batch_id,
     content_item_id |-> content_item_id,
     action_type     |-> action_type,
     action_params   |-> ActionParams(action_type, cls_result),
     approved        |-> PyTrue,
     executed        |-> FALSE,
     executed_at     |-> None,
     error           |-> None]

\* ProposedAction(...) as constructed at queue.py 85-91; approved, executed
\* and error take the column defaults of database.py 112-115.
NewAction(batch_id, content_item_id, action_type, cls_result) ==
    [batch_id        |-> batch_id,
     content_item_id |-> content_item_id,
     action_type     |-> action_type,
     action_params   |-> ActionParams(action_type, cls_result),
     approved        |-> None,
     executed        |-> FALSE,
     executed_at     |-> None,
     error           |-> None]

\* ContentItem(...) as constructed at queue.py 57-68.
NewItem(cls_result) ==
    [external_id      |-> cls_result.email_id,
     sender           |-> "sender",
     category         |-> cls_result.category,
     sensitivity_flag |-> cls_result.is_sensitive,
     ai_provider_used |-> IF cls_result.analyzed_locally THEN "local" ELSE "cloud"]

\* A mark on a content_items row, kept for the properties only: the batch
\* in whose creation run the row was added. The table has no such column.
CreatedIn(batch_id) == [created_in |-> batch_id]

\* A variant of ActionsFor that refers to the row before the new item.
ActionsFor_PreviousItem(cls_result, batch_id, content_item_id) ==
    LET names == SelectSeq(cls_result.suggested_actions,
                           LAMBDA n : ACTION_MAP(n) # None)
    IN  [i \in 1..Len(names) |->
            NewAction(batch_id, content_item_id - 1, ACTION_MAP(names[i]), cls_result)]

\* The inner loop of queue.py 74-92: one action per suggested name that maps.
ActionsFor(cls_result, batch_id, content_item_id) ==
    LET names == SelectSeq(cls_result.suggested_actions,
                           LAMBDA n : ACTION_MAP(n) # None)
    IN  [i \in 1..Len(names) |->
            NewAction(batch_id, content_item_id, ACTION_MAP(names[i]), cls_result)]

\* The outer loop of queue.py 51-92 over the classifications, in order;
\* emails is the key set of the msg_id -> EmailMessage dict.
RECURSIVE CreateLoop(_, _, _, _, _)
CreateLoop(classifications, emails, batch_id, its, acts) ==
    IF classifications = <<>>
    THEN [items |-> its, actions |-> acts]
    ELSE LET cls_result == Head(classifications)
         IN  IF cls_result.email_id \notin emails
             THEN CreateLoop(Tail(classifications), emails, batch_id, its, acts)
             ELSE LET its2 == Append(its, NewItem(cls_result) @@ CreatedIn(batch_id))
                  IN  CreateLoop(Tail(classifications), emails, batch_id, its2,
                                 acts \o ActionsFor(cls_result, batch_id, Len(its2)))

\* The characters of the category names of the model.
Chars(category) ==
    CASE category = "JUNK"     -> << "J", "U", "N", "K" >>
      [] category = "PERSONAL" -> << "P", "E", "R", "S", "O", "N", "A", "L" >>
      [] category = "ERROR"    -> << "E", "R", "R", "O", "R" >>
      [] category = "FYI"      -> << "F", "Y", "I" >>
      [] category = "junk"     -> << "j", "u", "n", "k" >>
      [] category = "Work"     -> << "W", "o", "r", "k" >>

\* summaries_by_category after the loop (queue.py 49, 94-97): the number of
\* classifications of each category among those that were not skipped.
SummariesByCategory(classifications, emails) ==
    LET kept == SelectSeq(classifications, LAMBDA c : c.email_id \in emails)
        cats == { kept[k].category : k \in 1..Len(kept) }
    IN  [cat \in cats |-> Cardinality({ k \in 1..Len(kept) : kept[k].category = cat })]

\* sorted(...) on the keys of the dict (queue.py 100): ascending in the
\* order of Python strings.
RECURSIVE SortedKeys(_)
SortedKeys(S) ==
    IF S = {} THEN << >>
    ELSE LET m == CHOOSE x \in S :
                     \A y \in S \ {x} : StrLess(Chars(x), Chars(y))
         IN  <<m>> \o SortedKeys(S \ {m})

\* batch.batch_summary (queue.py 100-101): the text "Email batch: "
\* followed by the parts f"{count} {cat.lower()}" joined with ", "; kept as
\* the prefix and the list of parts.
BatchSummary(classifications, emails) ==
    LET by == SummariesByCategory(classifications, emails)
        keys == SortedKeys(DOMAIN by)
    IN  [prefix |-> "Email batch: ",
         parts  |-> [i \in 1..Len(keys) |->
                        [count |-> by[keys[i]], name |-> Lower(Chars(keys[i]))]]]

\* A ClassificationResult (classifier.py 62-71) as classify_email and
\* batch_classify build it.
Cls(email_id, category, suggested_actions, kept_local) ==
    [email_id          |-> email_id,
     category          |-> category,
     suggested_actions |-> suggested_actions,
     is_sensitive      |-> kept_local,
     analyzed_locally  |-> kept_local,
     unsubscribe_url   |-> None]

\* The classification lists and message dicts the requests are drawn from.
ClassificationInputs ==
    { << Cls("m1", "JUNK", <<"archive">>, FALSE) >>,
      << Cls("m1", "JUNK", <<"unsubscribe", "keep">>, FALSE),
         Cls("m2", "PERSONAL", <<"label">>, TRUE) >>,
      << Cls("m3", "PERSONAL", <<"delete">>, TRUE) >> }

EmailDicts == { {"m1", "m2"} }

BatchIds == 1..Len(batches)
ActionIds == 1..Len(actions)
ActionsOf(batch_id) == { id \in ActionIds : actions[id].batch_id = batch_id }

\* The approval flags of the actions of a batch.
FlagsOf(batch_id) == [id \in ActionsOf(batch_id) |-> actions[id].approved]

\* A variant of ItemCount that counts the classifications whose message
\* exists.
ItemCount_Stored(classifications, emails) ==
    Len(SelectSeq(classifications, LAMBDA c : c.email_id \in emails))

\* item_count as the batch is constructed (queue.py 41-45), before the loop
\* that skips the classifications without a message (queue.py 52-54); it is
\* not assigned again.
ItemCount(classifications, emails) == Len(classifications)

\* create_email_review_batch: one transaction, committed at queue.py 103.
create_email_review_batch(classifications, emails) ==
    /\ Len(batches) < MaxBatches
    /\ LET batch_id == Len(batches) + 1
           r == CreateLoop(classifications, emails, batch_id, items, actions)
       IN  /\ batches' = Append(batches,
                             [status        |-> "pending",
                              item_count    |-> ItemCount(classifications, emails),
                              batch_summary |-> BatchSummary(classifications, emails)])
           /\ items' = r.items
           /\ actions' = r.actions
           /\ lastOp' = [op |-> "create", batch_id |-> batch_id, raised |-> FALSE,
                         classifications |-> classifications, emails |-> emails,
                         items_before |-> Len(items)]
    /\ UNCHANGED <<calls, sessions>> /\ UNCHANGED routerVars

\* The optional argument approved_action_ids: None, or a list read as a set.
NoIds == [is_none |-> TRUE, ids |-> {}]
IdList(S) == [is_none |-> FALSE, ids |-> S]

\* The status approve_batch writes (queue.py 165-187), from the flags it has
\* just written to the batch's actions.
ApproveStatus(flags, approved_action_ids, reject_all) ==
    IF reject_all THEN "rejected"
    ELSE IF approved_action_ids.is_none THEN "approved"
    ELSE LET has_approved == \E id \in DOMAIN flags : flags[id] = PyTrue
             has_rejected == \E id \in DOMAIN flags : flags[id] = PyFalse
         IN  IF has_approved /\ has_rejected THEN "partial"
             ELSE IF has_approved THEN "approved" ELSE "rejected"

\* A variant of ApproveFlag that reads a missing id list as an empty one.
ApproveFlag_NoneAsEmpty(id, approved_action_ids, reject_all) ==
    IF reject_all THEN PyFalse
    ELSE IF id \in approved_action_ids.ids THEN PyTrue ELSE PyFalse

\* A variant of ApproveFlag that tests the id list before reject_all.
ApproveFlag_IdsFirst(id, approved_action_ids, reject_all) ==
    IF ~approved_action_ids.is_none
    THEN (IF id \in approved_action_ids.ids THEN PyTrue ELSE PyFalse)
    ELSE IF reject_all THEN PyFalse ELSE PyTrue

\* The flag approve_batch writes to action id (queue.py 165-178).
ApproveFlag(id, approved_action_ids, reject_all) ==
    IF reject_all THEN PyFalse
    ELSE IF approved_action_ids.is_none THEN PyTrue
    ELSE IF id \in approved_action_ids.ids THEN PyTrue ELSE PyFalse

\* A variant of SelectOfBatch without the where-clause.
SelectOfBatch_AllRows(acts, batch_id) == DOMAIN acts

\* The rows the select of queue.py 160-163 returns: the actions whose
\* batch_id is the one given.
SelectOfBatch(acts, batch_id) == { id \in DOMAIN acts : acts[id].batch_id = batch_id }

\* approve_batch: raises when the batch does not exist (queue.py 156-158),
\* else rewrites every flag of the batch and the status, and commits.
approve_batch(batch_id, approved_action_ids, reject_all) ==
    /\ IF batch_id \notin BatchIds
       THEN /\ lastOp' = [op |-> "approve", batch_id |-> batch_id, raised |-> TRUE,
                          approved_action_ids |-> approved_action_ids,
                          reject_all |-> reject_all]
            /\ UNCHANGED <<batches, actions>>
       ELSE LET mine == SelectOfBatch(actions, batch_id)
                flags == [id \in mine |->
                             ApproveFlag(id, approved_action_ids, reject_all)]
            IN  /\ actions' = [id \in ActionIds |->
                                  IF id \in mine
                                  THEN [actions[id] EXCEPT !.approved = flags[id]]
                                  ELSE actions[id]]
                /\ batches' = [batches EXCEPT ![batch_id].status =
                                  ApproveStatus(flags, approved_action_ids, reject_all)]
                /\ lastOp' = [op |-> "approve", batch_id |-> batch_id, raised |-> FALSE,
                              approved_action_ids |-> approved_action_ids,
                              reject_all |-> reject_all]
    /\ UNCHANGED <<items, calls, sessions>> /\ UNCHANGED routerVars

-----------------------------------------------------------------------------
(* services/actions/executor.py                                            *)

\* The calls _execute_single makes for an action, in program order, when
\* none of them raises (executor.py 67-99); for a kind that falls to the
\* default case, which raises ValueError (executor.py 101-102), known is false.
SingleCalls(action, item) ==
    LET params  == action.action_params
        gmail(c) == [to |-> "gmail", call |-> c, msg_id |-> item.external_id]
        known(cs) == [known |-> TRUE, calls |-> cs]
    IN  CASE action.action_type = "archive"   -> known(<< gmail("archive") >>)
          [] action.action_type = "delete"    -> known(<< gmail("trash") >>)
          [] action.action_type = "mark_read" -> known(<< gmail("mark_read") >>)
          [] action.action_type = "label"     ->
                known(<< gmail("get_or_create_label"), gmail("add_label") >>)
          [] action.action_type = "unsubscribe" ->
                \* every url the model holds starts with "http"
                known((IF params.unsubscribe_url # None
                       THEN << [to |-> "http", call |-> "get",
                                msg_id |-> item.external_id] >>
                       ELSE << >>) \o << gmail("archive") >>)
          [] action.action_type = "draft_reply" ->
                known(IF params.reply_body # None /\ item.sender # ""
                      THEN << gmail("create_draft") >> ELSE << >>)
          [] OTHER -> [known |-> FALSE, calls |-> << >>]

\* _execute_single(action, item, gmail): the calls made, and whether it
\* raised. fail_at = k says the k-th outside call raises (0: none does); none
\* of the calls is guarded inside _execute_single, so the first one that
\* raises ends it.
execute_single(action, item, fail_at) ==
    LET single == SingleCalls(action, item)
        cs == single.calls
    IN  IF ~single.known
        THEN [made |-> << >>, raised |-> TRUE, error |-> "Unknown action type"]
        ELSE IF fail_at \in 1..Len(cs)
        THEN [made |-> SubSeq(cs, 1, fail_at), raised |-> TRUE, error |-> "call failed"]
        ELSE [made |-> cs, raised |-> FALSE, error |-> None]

\* session.get(ContentItem, action.content_item_id) finds a row
\* (executor.py 32-33).
ItemFound(its, action) == action.content_item_id \in 1..Len(its)

\* A variant of MarkMissing that leaves the action unexecuted.
MarkMissing_NotExecuted(action) ==
    [action EXCEPT !.error = "Content item not found"]

\* What the loop writes to an action whose ContentItem is not found
\* (executor.py 34-36).
MarkMissing(action) ==
    [action EXCEPT !.error = "Content item not found",
                   !.executed = TRUE,
                   !.executed_at = "now"]

\* A variant of MarkDone that also clears the approval.
MarkDone_ClearsApproval(action) ==
    [action EXCEPT !.executed = TRUE, !.executed_at = "now", !.approved = None]

\* What the loop writes to an action whose dispatch returned
\* (executor.py 42-43).
MarkDone(action) ==
    [action EXCEPT !.executed = TRUE, !.executed_at = "now"]

\* A variant of MarkFailed that leaves the action unexecuted.
MarkFailed_NotExecuted(action, err) ==
    [action EXCEPT !.error = err]

\* What the except branch writes to an action whose dispatch raised
\* (executor.py 47-49).
MarkFailed(action, err) ==
    [action EXCEPT !.error = err, !.executed = TRUE, !.executed_at = "now"]

\* A variant of RestOfPass: the pass ends at the first failure.
RestOfPass_StopAtFailure(todo) == << >>

\* The actions the for loop still visits after one has failed: the
\* `continue` of executor.py 38 and the end of the except branch (52) both
\* go on with the next action.
RestOfPass(todo) == Tail(todo)

\* The loop of executor.py 31-52 over the selected actions, in order. oracle
\* gives fail_at for each action; its, the content_items table; sts, the
\* status of each batch (recorded with each call, for the claims).
RECURSIVE ExecLoop(_, _, _, _, _, _, _)
ExecLoop(todo, oracle, its, sts, acts, log, summary) ==
    IF todo = << >>
    THEN [actions |-> acts, calls |-> log, summary |-> summary]
    ELSE LET id     == Head(todo)
             action == acts[id]
         IN  IF ~ItemFound(its, action)
             THEN ExecLoop(RestOfPass(todo), oracle, its, sts,
                           [acts EXCEPT ![id] = MarkMissing(action)], log,
                           [summary EXCEPT !.failed = @ + 1])
             ELSE LET r == execute_single(action, its[action.content_item_id], oracle[id])
                      made == [i \in 1..Len(r.made) |->
                                 [action_id |-> id,
                                  nth       |-> i,
                                  to        |-> r.made[i].to,
                                  call      |-> r.made[i].call,
                                  msg_id    |-> r.made[i].msg_id,
                                  approved  |-> action.approved,
                                  status    |-> sts[action.batch_id].status,
                                  executed  |-> action.executed]]
                  IN  IF r.raised
                      THEN ExecLoop(RestOfPass(todo), oracle, its, sts,
                                    [acts EXCEPT ![id] = MarkFailed(action, r.error)],
                                    log \o made,
                                    [summary EXCEPT
                                       !.failed = @ + 1,
                                       !.errors = Append(@, [action_id |-> id,
                                                             error |-> r.error])])
                      ELSE ExecLoop(Tail(todo), oracle, its, sts,
                                    [acts EXCEPT ![id] = MarkDone(action)],
                                    log \o made,
                                    [summary EXCEPT !.succeeded = @ + 1])

\* summary as initialised at executor.py 29.
NewSummary(todo) ==
    [total |-> Len(todo), succeeded |-> 0, failed |-> 0, errors |-> << >>]

\* The ids in S in ascending order.
RECURSIVE Ascending(_)
Ascending(S) ==
    IF S = {} THEN << >>
    ELSE LET m == CHOOSE x \in S : \A y \in S : x <= y
         IN  <<m>> \o Ascending(S \ {m})

\* The first where-clause of the select, ProposedAction.batch_id == batch_id
\* (executor.py 22).
batch_clause(action, batch_id) == action.batch_id = batch_id

\* The second where-clause, the Boolean column ProposedAction.approved
\* (executor.py 23): true of a row whose value is true, not of NULL or false.
approved_clause(action) == action.approved = PyTrue

\* A variant of not_executed_clause: the clause left out of the select.
not_executed_clause_Dropped(action) == TRUE

\* The third where-clause, `not ProposedAction.executed` (executor.py 24).
\* Python's `not` is applied to the mapped class attribute while the query
\* is built, not to any row: its value is the Python constant False, which
\* the where() renders as a false condition; the clause holds of no row.
not_executed_clause(action) == FALSE

\* A variant of SelectActions that filters on the batch id alone.
SelectActions_AllOfBatch(acts, batch_id) ==
    Ascending({ id \in DOMAIN acts : batch_clause(acts[id], batch_id) })

\* The rows the select of executor.py 20-27 returns, as a list of ids.
SelectActions(acts, batch_id) ==
    Ascending({ id \in DOMAIN acts :
                    /\ batch_clause(acts[id], batch_id)
                    /\ approved_clause(acts[id])
                    /\ not_executed_clause(acts[id]) })

\* What building the query does with `not ProposedAction.executed` is
\* decided by the ORM library, which is not part of the repository: either
\* the truth test gives a value, `not` gives False and where() takes it (as
\* not_executed_clause says), or an exception is raised before any row is
\* read.
NotOfColumn == {"False", "raises"}

\* The actions of a batch that are approved and not executed: what a pass is
\* meant to apply (recorded for the claims).
Eligible(batch_id) ==
    { id \in ActionsOf(batch_id) : actions[id].approved = PyTrue /\ ~actions[id].executed }

\* Whether the request before this pass was a pass on the same batch
\* (recorded for the claims).
Again(batch_id) == lastOp.op = "execute" /\ lastOp.batch_id = batch_id

\* The ids a pass on batch_id selects now.
SelectedIds(batch_id) ==
    LET todo == SelectActions(actions, batch_id)
    IN  { todo[i] : i \in 1..Len(todo) }

\* execute_approved_actions: select, loop, commit (executor.py 20-55).
execute_approved_actions(batch_id, not_value, oracle) ==
    /\ Len(calls) < MaxCalls
    /\ IF not_value = "raises"
       THEN /\ lastOp' = [op |-> "execute", batch_id |-> batch_id, raised |-> TRUE,
                          again |-> Again(batch_id), eligible |-> Eligible(batch_id),
                          selected |-> {},
                          summary |-> None]
            /\ UNCHANGED <<actions, calls>>
       ELSE LET todo == SelectActions(actions, batch_id)
                r == ExecLoop(todo, oracle, items, batches, actions, << >>,
                              NewSummary(todo))
            IN  /\ actions' = r.actions
                /\ calls' = calls \o r.calls
                /\ lastOp' = [op |-> "execute", batch_id |-> batch_id, raised |-> FALSE,
                              again |-> Again(batch_id), eligible |-> Eligible(batch_id),
                              selected |-> { todo[i] : i \in 1..Len(todo) },
                              summary |-> r.summary]
    /\ UNCHANGED <<batches, items, sessions>> /\ UNCHANGED routerVars

-----------------------------------------------------------------------------
(* The ledger and the executor as a state machine                          *)

DefaultSettings ==
    [default_provider      |-> "ollama",
     high_quality_provider |-> "claude",
     claude_api_key        |-> FALSE,
     gemini_api_key        |-> FALSE]

Init ==
    /\ batches = << >>
    /\ items = << >>
    /\ actions = << >>
    /\ calls = << >>
    /\ lastOp = [op |-> "none"]
    /\ sessions = << >>
    /\ settings = DefaultSettings
    /\ llm_log = << >>
    /\ llm_out = [op |-> "none"]

Create ==
    \E classifications \in ClassificationInputs, emails \in EmailDicts :
        create_email_review_batch(classifications, emails)

\* One id that is not an action of the batch: an action of another batch
\* when there is one, else an id no action has.
ForeignIds(batch_id) ==
    LET others == ActionIds \ ActionsOf(batch_id)
    IN  IF others = {} THEN {Len(actions) + 1}
        ELSE {CHOOSE id \in others : \A o \in others : id <= o}

Approve ==
    \E batch_id \in 1..(Len(batches) + 1), reject_all \in BOOLEAN :
        \E ids \in {NoIds} \cup
                    { IdList(S) : S \in SUBSET (ActionsOf(batch_id) \cup ForeignIds(batch_id)) } :
            approve_batch(batch_id, ids, reject_all)

Execute ==
    \E batch_id \in 1..(Len(batches) + 1), not_value \in NotOfColumn :
        \E oracle \in [SelectedIds(batch_id) -> 0..2] :
            execute_approved_actions(batch_id, not_value, oracle)

Next == Create \/ Approve \/ Execute

Spec == Init /\ [][Next]_vars

-----------------------------------------------------------------------------
(* Batch creation on classifications of any category                       *)

\* The classifications the lists are made of: category names in upper,
\* lower and mixed case as the model's answer may spell them, one message
\* that the dict does not hold.
SummaryPool ==
    { Cls("m1", "Work", <<"archive">>, FALSE),
      Cls("m2", "junk", <<"keep">>, FALSE),
      Cls("m1", "JUNK", <<"archive">>, FALSE),
      Cls("m2", "PERSONAL", <<"mark_read">>, TRUE),
      Cls("m3", "PERSONAL", <<"archive">>, TRUE) }

SummaryInputs ==
    { <<c>> : c \in SummaryPool } \cup { <<c, d>> : c, d \in SummaryPool }

CreateAny ==
    \E classifications \in SummaryInputs, emails \in EmailDicts :
        create_email_review_batch(classifications, emails)

NextCreate == CreateAny

SpecCreate == Init /\ [][NextCreate]_vars

-----------------------------------------------------------------------------
(* The loop of the executor, applied to the actions a pass is meant to     *)
(* select: the ledger holds one reviewed batch                             *)

\* proposed_actions rows of the reviewed batch
MaxLoopActions == 2

\* A classification that carries an unsubscribe link (classifier.py 70).
ClsWithUrl(email_id) ==
    [Cls(email_id, "JUNK", <<"unsubscribe">>, FALSE) EXCEPT
        !.unsubscribe_url = "http://u"]

\* The content_items rows of the batch, as create_email_review_batch builds
\* them.
LoopItems ==
    << NewItem(Cls("m1", "JUNK", <<"archive">>, FALSE)),
       NewItem(Cls("m2", "PERSONAL", <<"label">>, TRUE)) >>

\* The id of a ContentItem whose row is gone.
MissingItem == Len(LoopItems) + 1

\* The proposed_actions rows a reviewed batch is drawn from: built as
\* create_email_review_batch builds them, the flag written by approve_batch.
\* One row refers to a ContentItem that is gone, one has a kind
\* _execute_single has no case for.
LoopRows ==
    LET c1 == Cls("m1", "JUNK", <<"archive">>, FALSE)
        c2 == Cls("m2", "PERSONAL", <<"label">>, TRUE)
        fresh == { NewAction(1, 1, "archive", c1),
                   NewAction(1, 2, "label", c2),
                   NewAction(1, 1, "unsubscribe", ClsWithUrl("m1")),
                   NewAction(1, 1, "unsubscribe", c1),
                   NewAction(1, MissingItem, "archive", c1),
                   NewAction(1, 2, "draft_reply", c2),
                   NewAction(1, 1, "bookmark_tag", c1) }
    IN  { [row EXCEPT !.approved = flag] : row \in fresh, flag \in {PyTrue, PyFalse} }

\* The loop and the commit of executor.py 29-55 on the rows of the batch
\* that are approved and not executed, in id order: the rows the pass is
\* written for. (The select as written, SelectActions, hands the loop no
\* row; under Spec the loop therefore never has an action to work on.)
LoopPass(batch_id, oracle) ==
    LET todo == Ascending(Eligible(batch_id))
        r == ExecLoop(todo, oracle, items, batches, actions, << >>, NewSummary(todo))
    IN  /\ actions' = r.actions
        /\ calls' = calls \o r.calls
        /\ lastOp' = [op |-> "pass", batch_id |-> batch_id, raised |-> FALSE,
                      todo |-> todo, oracle |-> oracle, pre |-> actions,
                      summary |-> r.summary]
        /\ UNCHANGED <<batches, items, sessions>> /\ UNCHANGED routerVars

InitLoop ==
    /\ items = LoopItems
    /\ actions \in UNION { [1..n -> LoopRows] : n \in 1..MaxLoopActions }
    /\ batches = << [status |-> ApproveStatus([id \in DOMAIN actions |-> actions[id].approved],
                                              IdList({}), FALSE),
                     item_count |-> Len(LoopItems)] >>
    /\ calls = << >>
    /\ lastOp = [op |-> "none"]
    /\ sessions = << >>
    /\ settings = DefaultSettings
    /\ llm_log = << >>
    /\ llm_out = [op |-> "none"]

Pass == \E oracle \in [Eligible(1) -> 0..2] : LoopPass(1, oracle)

ApproveRest == approve_batch(1, NoIds, FALSE)

NextLoop == Pass \/ ApproveRest

SpecLoop == InitLoop /\ [][NextLoop]_vars

-----------------------------------------------------------------------------
(* An execution pass step by step: the rows are changed in the session and *)
(* reach the database at the commit (executor.py 54), unless the pass is   *)
(* interrupted before it                                                   *)

\* The rows of the reviewed batch: approved actions on two messages, one of
\* them on a ContentItem that is gone.
PassRows ==
    { [row EXCEPT !.approved = PyTrue] :
        row \in { NewAction(1, 1, "archive", Cls("m1", "JUNK", <<"archive">>, FALSE)),
                  NewAction(1, 2, "label", Cls("m2", "PERSONAL", <<"label">>, TRUE)),
                  NewAction(1, MissingItem, "archive",
                            Cls("m1", "JUNK", <<"archive">>, FALSE)) } }

\* A variant of Stored: every assignment reaches the database at once.
Stored_WriteThrough(stored, held, committed) == held

\* What the database holds of a row the session has assigned to: the
\* assignments of executor.py 34-36, 42-43 and 47-49 change the session's
\* object; the row is written when session.commit() (executor.py 54) is
\* reached, and not at all when the session ends without it.
Stored(stored, held, committed) == IF committed THEN held ELSE stored

\* The select of executor.py 20-27 and the summary of line 29, on the rows
\* the pass is written for (see LoopPass): the session loads the rows.
begin_pass(batch_id, oracle) ==
    /\ Len(calls) < MaxCalls
    /\ IF sessions = << >> THEN TRUE ELSE sessions[1].pc \in {"done", "interrupted"}
    /\ LET todo == Ascending(Eligible(batch_id))
       IN  sessions' = << [pc       |-> "loop",
                           batch_id |-> batch_id,
                           ids      |-> todo,
                           todo     |-> todo,
                           oracle   |-> oracle,
                           acts     |-> actions,
                           summary  |-> NewSummary(todo)] >>
    /\ UNCHANGED <<batches, items, actions, calls, lastOp>> /\ UNCHANGED routerVars

\* One turn of the for loop (executor.py 31-52) on the next action: the
\* outside calls are made, the session's row is assigned to.
pass_step ==
    /\ sessions # << >> /\ sessions[1].pc = "loop" /\ sessions[1].todo # << >>
    /\ LET me == sessions[1]
           r == ExecLoop(<< Head(me.todo) >>, me.oracle, items, batches, me.acts,
                         << >>, me.summary)
       IN  /\ sessions' = << [me EXCEPT !.todo = Tail(me.todo),
                                        !.acts = r.actions,
                                        !.summary = r.summary] >>
           /\ calls' = calls \o r.calls
           /\ actions' = [id \in ActionIds |-> Stored(actions[id], r.actions[id], FALSE)]
    /\ UNCHANGED <<batches, items, lastOp>> /\ UNCHANGED routerVars

\* await session.commit() and the return of the summary (executor.py 54-55).
commit_pass ==
    /\ sessions # << >> /\ sessions[1].pc = "loop" /\ sessions[1].todo = << >>
    /\ LET me == sessions[1]
       IN  /\ actions' = [id \in ActionIds |-> Stored(actions[id], me.acts[id], TRUE)]
           /\ sessions' = << [me EXCEPT !.pc = "done"] >>
           /\ lastOp' = [op |-> "commit", batch_id |-> me.batch_id, raised |-> FALSE,
                         summary |-> me.summary]
    /\ UNCHANGED <<batches, items, calls>> /\ UNCHANGED routerVars

\* The pass ends before its commit (the request is cancelled, the process
\* stops, session.get raises): the session is closed, nothing it held is
\* written.
interrupt_pass ==
    /\ sessions # << >> /\ sessions[1].pc = "loop"
    /\ sessions' = << [sessions[1] EXCEPT !.pc = "interrupted"] >>
    /\ lastOp' = [op |-> "commit", batch_id |-> sessions[1].batch_id, raised |-> TRUE,
                  summary |-> None]
    /\ UNCHANGED <<batches, items, actions, calls>> /\ UNCHANGED routerVars

InitPass ==
    /\ items = LoopItems
    /\ actions \in UNION { [1..n -> PassRows] : n \in 1..MaxLoopActions }
    /\ batches = << [status |-> "approved", item_count |-> Len(LoopItems)] >>
    /\ calls = << >>
    /\ lastOp = [op |-> "none"]
    /\ sessions = << >>
    /\ settings = DefaultSettings
    /\ llm_log = << >>
    /\ llm_out = [op |-> "none"]

BeginPass == \E oracle \in [Eligible(1) -> 0..1] : begin_pass(1, oracle)

NextPass == BeginPass \/ pass_step \/ commit_pass \/ interrupt_pass

SpecPass == InitPass /\ [][NextPass]_vars

\* A pass that nothing interrupts. Every await of the loop is on a call
\* that returns or raises, and the event loop resumes the coroutine when it
\* does: a turn of the loop that can be taken is taken, and so is the
\* commit.
NextRun == BeginPass \/ pass_step \/ commit_pass

SpecRun == InitPass /\ [][NextRun]_vars /\ WF_vars(pass_step) /\ WF_vars(commit_pass)

-----------------------------------------------------------------------------
(* approve_batch step by step: two requests on one batch, each with its    *)
(* own session (database.py 123-125), interleaved at their awaits          *)

\* The classifications the batch is created from: two actions.
ConcClassifications ==
    << Cls("m1", "JUNK", <<"unsubscribe", "keep">>, FALSE),
       Cls("m2", "PERSONAL", <<"label">>, TRUE) >>

\* The arguments an approval request is drawn from.
ApproveInputs ==
    [approved_action_ids : {NoIds, IdList({}), IdList({1}), IdList({1, 2})},
     reject_all          : BOOLEAN]

\* A request that has not started: its session has loaded nothing.
NewSession(batch_id, input) ==
    [pc                  |-> "start",
     batch_id            |-> batch_id,
     approved_action_ids |-> input.approved_action_ids,
     reject_all          |-> input.reject_all,
     status              |-> None,
     flags               |-> << >>]

\* batch = await session.get(ReviewBatch, batch_id) (queue.py 156-158): the
\* session loads the batch row, or the request raises.
get_batch(r) ==
    /\ sessions[r].pc = "start"
    /\ sessions' = IF sessions[r].batch_id \in BatchIds
                   THEN [sessions EXCEPT ![r].pc = "got",
                                         ![r].status = batches[sessions[r].batch_id].status]
                   ELSE [sessions EXCEPT ![r].pc = "raised"]
    /\ UNCHANGED <<batches, items, actions, calls, lastOp>> /\ UNCHANGED routerVars

\* await session.execute(select(ProposedAction)...) (queue.py 160-163): the
\* session loads the rows of the batch's actions.
select_actions(r) ==
    /\ sessions[r].pc = "got"
    /\ sessions' = [sessions EXCEPT ![r].pc = "selected",
                                    ![r].flags = FlagsOf(sessions[r].batch_id)]
    /\ UNCHANGED <<batches, items, actions, calls, lastOp>> /\ UNCHANGED routerVars

\* What session.commit() (queue.py 190) leaves in a column: the session's
\* unit of work sends an UPDATE for the attributes whose assigned value
\* differs from the value the session loaded, and leaves the others as they
\* are stored.
Flush(loaded, assigned, stored) ==
    IF assigned # loaded THEN assigned ELSE stored

\* The assignments of queue.py 165-189 to the loaded objects, which never
\* await, and the commit of line 190.
commit(r) ==
    /\ sessions[r].pc = "selected"
    /\ LET me == sessions[r]
           mine == DOMAIN me.flags
           flags == [id \in mine |->
                        ApproveFlag(id, me.approved_action_ids, me.reject_all)]
           status == ApproveStatus(flags, me.approved_action_ids, me.reject_all)
       IN  /\ actions' = [id \in ActionIds |->
                             IF id \in mine
                             THEN [actions[id] EXCEPT !.approved =
                                      Flush(me.flags[id], flags[id], actions[id].approved)]
                             ELSE actions[id]]
           /\ batches' = [batches EXCEPT ![me.batch_id].status =
                             Flush(me.status, status, batches[me.batch_id].status)]
           /\ sessions' = [sessions EXCEPT ![r].pc = "done"]
    /\ UNCHANGED <<items, calls, lastOp>> /\ UNCHANGED routerVars

\* One batch of two actions, fresh or already reviewed by an earlier
\* approve_batch, and two requests about to start.
InitConc ==
    \E reviewed \in BOOLEAN, earlier, in1, in2 \in ApproveInputs :
        LET r == CreateLoop(ConcClassifications, {"m1", "m2"}, 1, << >>, << >>)
            flags == [id \in DOMAIN r.actions |->
                         ApproveFlag(id, earlier.approved_action_ids, earlier.reject_all)]
        IN  /\ items = r.items
            /\ actions = IF reviewed
                         THEN [id \in DOMAIN r.actions |->
                                  [r.actions[id] EXCEPT !.approved = flags[id]]]
                         ELSE r.actions
            /\ batches = << [status |-> IF reviewed
                                        THEN ApproveStatus(flags, earlier.approved_action_ids,
                                                           earlier.reject_all)
                                        ELSE "pending",
                             item_count |-> Len(ConcClassifications)] >>
            /\ sessions = << NewSession(1, in1), NewSession(1, in2) >>
            /\ calls = << >>
            /\ lastOp = [op |-> "none"]
            /\ settings = DefaultSettings
            /\ llm_log = << >>
            /\ llm_out = [op |-> "none"]

GetBatch == \E r \in DOMAIN sessions : get_batch(r)

SelectRows == \E r \in DOMAIN sessions : select_actions(r)

Commit == \E r \in DOMAIN sessions : commit(r)

NextConc == GetBatch \/ SelectRows \/ Commit

SpecConc == InitConc /\ [][NextConc]_vars

-----------------------------------------------------------------------------
(* Two execution passes on one batch, each with its own session, taken     *)
(* step by step and interleaved at their awaits: the specification         *)
(* SpecRace                                                                *)

\* A pass that has not yet run its select.
NewPass(batch_id) ==
    [pc |-> "start", batch_id |-> batch_id, ids |-> << >>, todo |-> << >>,
     oracle |-> << >>, loaded |-> << >>, acts |-> << >>,
     summary |-> NewSummary(<< >>), other_committed |-> FALSE]

\* The select of executor.py 20-27 and the summary of line 29, on the rows
\* the pass is written for (see LoopPass): the session loads the rows as
\* the database holds them now. Nothing is locked, and nothing is written
\* that another session could see.
select_pass(r, oracle) ==
    /\ sessions[r].pc = "start"
    /\ LET me == sessions[r]
           todo == Ascending(Eligible(me.batch_id))
       IN  sessions' = [sessions EXCEPT ![r] =
                           [me EXCEPT !.pc = "loop", !.ids = todo, !.todo = todo,
                                      !.oracle = oracle, !.loaded = actions,
                                      !.acts = actions,
                                      !.summary = NewSummary(todo),
                                      !.other_committed =
                                          \E o \in DOMAIN sessions \ {r} :
                                              sessions[o].pc = "done"]]
    /\ UNCHANGED <<batches, items, actions, calls, lastOp>> /\ UNCHANGED routerVars

\* One turn of the for loop (executor.py 31-52) of pass r: the outside
\* calls are made, the session's row is assigned to. The row is not read
\* again from the database before the dispatch.
loop_turn(r) ==
    /\ sessions[r].pc = "loop" /\ sessions[r].todo # << >>
    /\ LET me == sessions[r]
           t == ExecLoop(<< Head(me.todo) >>, me.oracle, items, batches, me.acts,
                         << >>, me.summary)
       IN  /\ sessions' = [sessions EXCEPT ![r] =
                              [me EXCEPT !.todo = Tail(me.todo), !.acts = t.actions,
                                         !.summary = t.summary]]
           /\ calls' = calls \o t.calls
    /\ UNCHANGED <<batches, items, actions, lastOp>> /\ UNCHANGED routerVars

\* await session.commit() of pass r (executor.py 54): the columns the pass
\* assigned to are written.
commit_turns(r) ==
    /\ sessions[r].pc = "loop" /\ sessions[r].todo = << >>
    /\ LET me == sessions[r]
           mine == { me.ids[i] : i \in 1..Len(me.ids) }
       IN  /\ actions' = [id \in ActionIds |->
                             IF id \in mine
                             THEN [actions[id] EXCEPT
                                     !.executed = Flush(me.loaded[id].executed,
                                                        me.acts[id].executed, @),
                                     !.executed_at = Flush(me.loaded[id].executed_at,
                                                           me.acts[id].executed_at, @),
                                     !.error = Flush(me.loaded[id].error,
                                                     me.acts[id].error, @)]
                             ELSE actions[id]]
           /\ sessions' = [sessions EXCEPT ![r].pc = "done"]
           /\ lastOp' = [op |-> "commit", batch_id |-> me.batch_id, raised |-> FALSE,
                         summary |-> me.summary]
    /\ UNCHANGED <<batches, items, calls>> /\ UNCHANGED routerVars

\* One approved batch, and two passes on it about to start.
InitRace ==
    /\ items = LoopItems
    /\ actions \in UNION { [1..n -> PassRows] : n \in 1..MaxLoopActions }
    /\ batches = << [status |-> "approved", item_count |-> Len(LoopItems)] >>
    /\ calls = << >>
    /\ lastOp = [op |-> "none"]
    /\ sessions = << NewPass(1), NewPass(1) >>
    /\ settings = DefaultSettings
    /\ llm_log = << >>
    /\ llm_out = [op |-> "none"]

SelectPass ==
    \E r \in DOMAIN sessions :
        \E oracle \in [Eligible(sessions[r].batch_id) -> 0..1] : select_pass(r, oracle)

LoopTurn == \E r \in DOMAIN sessions : loop_turn(r)

CommitTurns == \E r \in DOMAIN sessions : commit_turns(r)

NextRace == SelectPass \/ LoopTurn \/ CommitTurns

SpecRace == InitRace /\ [][NextRace]_vars

-----------------------------------------------------------------------------
(* config/settings.py and services/llm/router.py                           *)

\* The members of the LLMProvider enumeration (settings.py 7-11).
LLMProvider == {"ollama", "claude", "gemini", "openai"}

\* Every configuration: the two provider settings range over the
\* enumeration, an API key is empty (FALSE) or set (TRUE).
AllSettings ==
    [default_provider      : LLMProvider,
     high_quality_provider : LLMProvider,
     claude_api_key        : BOOLEAN,
     gemini_api_key        : BOOLEAN]

\* self._providers after _init_providers (router.py 26-31).
Providers(cfg) ==
    {"ollama"} \cup (IF cfg.claude_api_key THEN {"claude"} ELSE {})
               \cup (IF cfg.gemini_api_key THEN {"gemini"} ELSE {})

\* Python truth value of an optional string.
Falsy(name) == name = None \/ name = ""

\* A variant of get_provider that takes the local provider for a name that
\* is not registered, as screen_then_analyze does for its analysis target.
get_provider_Fallback(cfg, name) ==
    LET n == IF Falsy(name) THEN cfg.default_provider ELSE name
    IN  [raised |-> FALSE,
         provider |-> IF n \notin Providers(cfg) THEN "ollama" ELSE n]

\* get_provider(name) (router.py 33-38): the provider, or ValueError.
get_provider(cfg, name) ==
    LET n == IF Falsy(name) THEN cfg.default_provider ELSE name
    IN  IF n \notin Providers(cfg)
        THEN [raised |-> TRUE, provider |-> None]
        ELSE [raised |-> FALSE, provider |-> n]

\* complete(prompt, provider=...) (router.py 40-58): one call to the provider
\* get_provider names, whose outcome (a response text, or an exception) is
\* outcome; no call when get_provider raises. pass and content say which
\* prompt the call carries.
complete(cfg, provider, pass, content, outcome) ==
    LET p == get_provider(cfg, provider)
    IN  IF p.raised
        THEN [log |-> << >>, raised |-> TRUE, content |-> << >>, provider |-> None]
        ELSE [log |-> << [provider |-> p.provider, pass |-> pass,
                          content |-> content, response |-> outcome] >>,
              raised   |-> outcome.raised,
              content  |-> outcome.content,
              provider |-> p.provider]


\* sub in text, for Python strings as sequences of characters.
Contains(sub, text) ==
    \E i \in 1..(Len(text) - Len(sub) + 1) : SubSeq(text, i, i + Len(sub) - 1) = sub

MARKER == << "S", "E", "N", "S", "I", "T", "I", "V", "E" >>

\* A variant of is_sensitive that tests the text as it is, without upper().
is_sensitive_CaseSensitive(content) == Contains(MARKER, content)

\* is_sensitive = "SENSITIVE" in screening.content.upper() (router.py 80).
is_sensitive(content) == Contains(MARKER, Upper(content))

\* A variant of ScreeningProviderArg: no provider argument, so that
\* get_provider takes the configured default.
ScreeningProviderArg_Default(cfg) == None

\* The provider argument of the screening call (router.py 76).
ScreeningProviderArg(cfg) == "ollama"

\* A variant of Propagates: the exception is swallowed and the screening
\* text is taken to be empty.
Propagates_Never(resp) == FALSE

\* Whether an exception of the awaited screening call leaves
\* screen_then_analyze: the await at router.py 74-78 is not in a try block.
Propagates(resp) == resp.raised

\* A variant of AnalysisTarget that falls back on the default provider
\* setting instead of the high-quality one.
AnalysisTarget_Default(cfg, analysis_provider) ==
    LET target == IF Falsy(analysis_provider)
                  THEN cfg.default_provider ELSE analysis_provider
    IN  IF target \notin Providers(cfg) THEN "ollama" ELSE target

\* The target of the analysis call for clean content (router.py 89-92).
AnalysisTarget(cfg, analysis_provider) ==
    LET target == IF Falsy(analysis_provider)
                  THEN cfg.high_quality_provider ELSE analysis_provider
    IN  IF target \notin Providers(cfg) THEN "ollama" ELSE target

\* The kept_local entry of the returned dict (router.py 102).
KeptLocal(sensitive, target) == sensitive

\* screen_then_analyze (router.py 60-103): the calls made (log), and the
\* dict returned or the fact that it raised (out). scr and ana are the outcomes of the
\* screening and of the analysis call.
screen_then_analyze(cfg, content, analysis_provider, scr, ana) ==
    LET screening == complete(cfg, ScreeningProviderArg(cfg), "screening", content, scr)
    IN  IF Propagates(screening)
        THEN [log |-> screening.log, out |-> [raised |-> TRUE, at |-> "screening"]]
        ELSE LET sensitive == is_sensitive(screening.content)
                 target == IF sensitive THEN "ollama"
                           ELSE AnalysisTarget(cfg, analysis_provider)
                 analysis == complete(cfg, target, "analysis", content, ana)
             IN  IF analysis.raised
                 THEN [log |-> screening.log \o analysis.log,
                       out |-> [raised |-> TRUE, at |-> "analysis"]]
                 ELSE [log |-> screening.log \o analysis.log,
                       out |-> [raised     |-> FALSE,
                                screening  |-> screening.content,
                                analysis   |-> [content  |-> analysis.content,
                                                provider |-> analysis.provider],
                                kept_local |-> KeptLocal(sensitive, target)]]

-----------------------------------------------------------------------------
(* The requests that reach the router                                      *)

\* Texts a screening call may answer with.
ScreeningTexts ==
    { << "S", "E", "N", "S", "I", "T", "I", "V", "E" >>,
      << "s", "e", "n", "s", "i", "t", "i", "v", "e" >>,
      << "N", "o", "t", " ", "S", "e", "n", "s", "i", "t", "i", "v", "e", "." >>,
      << "C", "L", "E", "A", "N" >>,
      << "S", "E", "N", "S", "I", "T", "I", "V" >> }

\* Texts an analysis call may answer with, by name: a JSON object with the
\* expected fields, or text that is not JSON.
AnalysisTexts == { "json_object", "not_json" }

\* More texts a model may answer with: a JSON object without any of the
\* expected fields, JSON that is not an object (an array), and text that is
\* not JSON and longer than the reason kept of it.
ParseTexts == AnalysisTexts \cup { "json_empty_object", "json_array", "long_text" }

\* content[:200] keeps this many characters (classifier.py 100).
ReasonLimit == 200

\* Words read per minute in the read-time estimate (ingester.py 206, 217).
WordsPerMinute == 250

\* The characters of the texts; the fields of a JSON object are not
\* spelled out.
TextChars(text) ==
    CASE text = "not_json"   -> << "S", "u", "r", "e", "!" >>
      [] text = "long_text"  -> [i \in 1..(ReasonLimit + 1) |-> "x"]
      [] text = "json_array" -> << "[", "]" >>
      [] OTHER               -> << "{", "}" >>

\* json.loads(text): raises JSONDecodeError, or gives a dict (with the
\* fields the prompt asks for, or without them) or a list.
json_loads(text) ==
    CASE text = "json_object"       -> [raised |-> FALSE, kind |-> "dict", fields |-> TRUE]
      [] text = "json_empty_object" -> [raised |-> FALSE, kind |-> "dict", fields |-> FALSE]
      [] text = "json_array"        -> [raised |-> FALSE, kind |-> "list", fields |-> FALSE]
      [] OTHER                      -> [raised |-> TRUE, kind |-> None, fields |-> FALSE]

Raises == [raised |-> TRUE, content |-> << >>]
Answers(text) == [raised |-> FALSE, content |-> text]

ScreeningOutcomes == {Raises} \cup { Answers(t) : t \in ScreeningTexts }
AnalysisOutcomes == {Raises} \cup { Answers(t) : t \in AnalysisTexts }

\* Values of the optional provider of a request.
RequestedProviders == {None, "", "ollama", "claude", "openai"}

Contents == {"content1"}

\* POST /llm/analyze (main.py 124-156): screen_then_analyze with the
\* provider of the request.
analyze(content, provider, scr, ana) ==
    LET r == screen_then_analyze(settings, content, provider, scr, ana)
    IN  /\ llm_log' = r.log
        /\ llm_out' = [op |-> "analyze", content |-> content,
                       analysis_provider |-> provider, scr |-> scr, r |-> r.out]
        /\ UNCHANGED settings /\ UNCHANGED ledgerVars

\* d.get(key, default) on a dict, kept as a function on its keys.
Get(d, key, default) == IF key \in DOMAIN d THEN d[key] ELSE default

\* text[:n]
Slice(text, n) == SubSeq(text, 1, IF Len(text) < n THEN Len(text) ELSE n)

\* The dict a model writes when it follows CLASSIFICATION_PROMPT
\* (classifier.py 22-47).
ExpectedClassification ==
    [category          |-> "JUNK",
     reason            |-> << "a", "d" >>,
     suggested_actions |-> << "archive" >>,
     priority          |-> 2]

\* The dict classify_email builds when json.loads raises (classifier.py
\* 95-103).
DegradedClassification(content) ==
    [category          |-> "FYI",
     reason            |-> Slice(TextChars(content), ReasonLimit),
     suggested_actions |-> << "keep" >>,
     priority          |-> 3]

\* The value of classification after the try block (classifier.py 93-103):
\* what json.loads gave, or the dict built when it raised JSONDecodeError.
ParseClassification(content) ==
    LET parsed == json_loads(content)
    IN  IF parsed.raised
        THEN [kind |-> "dict", dict |-> DegradedClassification(content)]
        ELSE [kind |-> parsed.kind,
              dict |-> IF parsed.fields THEN ExpectedClassification ELSE << >>]

\* The ClassificationResult built at classifier.py 105-114; .get on a value
\* that is not a dict raises AttributeError, which nothing catches.
ClassificationResult(msg, classification, kept_local) ==
    IF classification.kind # "dict"
    THEN [raised |-> TRUE, error |-> "AttributeError"]
    ELSE [raised |-> FALSE,
          value  |-> [email_id          |-> msg,
                      category          |-> Get(classification.dict, "category", "FYI"),
                      reason            |-> Get(classification.dict, "reason", << >>),
                      suggested_actions |-> Get(classification.dict, "suggested_actions",
                                                << "keep" >>),
                      priority          |-> Get(classification.dict, "priority", 3),
                      is_sensitive      |-> kept_local,
                      analyzed_locally  |-> kept_local,
                      unsubscribe_url   |-> None]]

\* What classify_email returns or raises, given what the router returned or
\* raised (classifier.py 73-114).
Classified(msg, out) ==
    IF out.raised
    THEN [raised |-> TRUE, error |-> out.at]
    ELSE ClassificationResult(msg, ParseClassification(out.analysis.content),
                              out.kept_local)

\* classify_email (classifier.py 73-114): screen_then_analyze with no
\* analysis provider, then the parsing of the analysis text; an exception of
\* the router leaves classify_email.
classify_email(msg, scr, ana) ==
    LET r == screen_then_analyze(settings, msg, None, scr, ana)
    IN  /\ llm_log' = r.log
        /\ llm_out' = [op |-> "classify_email", content |-> msg,
                       analysis_provider |-> None, scr |-> scr, r |-> r.out,
                       result |-> Classified(msg, r.out)]
        /\ UNCHANGED settings /\ UNCHANGED ledgerVars

\* The result batch_classify appends when classify_email raised
\* (classifier.py 124-136); reason is str(e), kept as the name of the error.
ErrorResult(msg, error) ==
    [email_id          |-> msg,
     category          |-> "ERROR",
     reason            |-> << error >>,
     suggested_actions |-> << "keep" >>,
     priority          |-> 3,
     is_sensitive      |-> FALSE,
     analyzed_locally  |-> TRUE,
     unsubscribe_url   |-> None]

\* A variant of RestOfBatch in which the first failure ends the batch.
RestOfBatch_StopAtFailure(todo, failed) == IF failed THEN << >> ELSE Tail(todo)

\* The messages still to classify after the first of todo: the except
\* clause of classifier.py 124-136 is inside the loop, so a failure does not
\* end it.
RestOfBatch(todo, failed) == Tail(todo)

\* The loop of batch_classify (classifier.py 119-137) over the messages
\* todo, whose router calls have the outcomes outs: the results, what the
\* router returned for each message, and the calls made.
RECURSIVE BatchLoop(_, _, _, _)
BatchLoop(cfg, todo, outs, acc) ==
    IF todo = << >> THEN acc
    ELSE LET msg == Head(todo)
             r == screen_then_analyze(cfg, msg, None, outs[1][1], outs[1][2])
             c == Classified(msg, r.out)
             result == IF c.raised THEN ErrorResult(msg, c.error) ELSE c.value
             rest == RestOfBatch(todo, c.raised)
         IN  BatchLoop(cfg, rest, SubSeq(outs, Len(todo) - Len(rest) + 1, Len(outs)),
                       [results |-> Append(acc.results, result),
                        routed  |-> Append(acc.routed, r.out),
                        log     |-> acc.log \o r.log])

\* batch_classify (classifier.py 117-137).
batch_classify(messages, outs) ==
    LET b == BatchLoop(settings, messages, outs,
                       [results |-> << >>, routed |-> << >>, log |-> << >>])
    IN  /\ llm_log' = b.log
        /\ llm_out' = [op |-> "batch_classify", messages |-> messages,
                       outs |-> outs, results |-> b.results, routed |-> b.routed]
        /\ UNCHANGED settings /\ UNCHANGED ledgerVars

\* max(1, word_count // 250) (ingester.py 206, 217)
ReadTime(word_count) ==
    IF word_count \div WordsPerMinute < 1 THEN 1 ELSE word_count \div WordsPerMinute

\* The dict a model writes when it follows the digest prompt (ingester.py
\* 180-194).
ExpectedDigest ==
    [summary           |-> << "model summary" >>,
     category          |-> "tech",
     read_time_minutes |-> 7]

\* The dict fetch_and_distill builds when the call or json.loads raised
\* (ingester.py 199-207).
FallbackDigest(bookmark, word_count) ==
    [summary           |-> << "Content from ", bookmark >>,
     category          |-> "other",
     read_time_minutes |-> ReadTime(word_count)]

\* The value of data after the try block (ingester.py 196-207).
ParseDigest(bookmark, word_count, r) ==
    LET parsed == IF r.raised THEN [raised |-> TRUE] ELSE json_loads(r.content)
    IN  IF parsed.raised
        THEN [kind |-> "dict", fallback |-> TRUE,
              dict |-> FallbackDigest(bookmark, word_count)]
        ELSE [kind |-> parsed.kind, fallback |-> FALSE,
              dict |-> IF parsed.fields THEN ExpectedDigest ELSE << >>]

\* The DigestedBookmark built at ingester.py 209-218; .get on a value that
\* is not a dict raises AttributeError outside the try block.
DigestedBookmark(word_count, data) ==
    IF data.kind # "dict"
    THEN [raised |-> TRUE, fallback |-> FALSE, error |-> "AttributeError"]
    ELSE [raised   |-> FALSE,
          fallback |-> data.fallback,
          value    |-> [summary  |-> Get(data.dict, "summary", << >>),
                        category |-> Get(data.dict, "category", "other"),
                        word_count |-> word_count,
                        read_time_minutes |->
                            Get(data.dict, "read_time_minutes", ReadTime(word_count))]]

\* fetch_and_distill (ingester.py 169-218) on a page of word_count words:
\* one complete() call with no provider argument and the page text in the
\* prompt; the call and json.loads are in a try block that catches every
\* exception (ingester.py 196-207), the building of the digest is not.
fetch_and_distill(bookmark, word_count, ana) ==
    LET r == complete(settings, None, "distill", bookmark, ana)
    IN  /\ llm_log' = r.log
        /\ llm_out' = [op |-> "fetch_and_distill", content |-> bookmark,
                       word_count |-> word_count, ana |-> ana,
                       provider_error |-> r.raised,
                       r |-> DigestedBookmark(word_count,
                                              ParseDigest(bookmark, word_count, r))]
        /\ UNCHANGED settings /\ UNCHANGED ledgerVars

InitRouter ==
    /\ batches = << >>
    /\ items = << >>
    /\ actions = << >>
    /\ calls = << >>
    /\ lastOp = [op |-> "none"]
    /\ sessions = << >>
    /\ settings \in AllSettings
    /\ llm_log = << >>
    /\ llm_out = [op |-> "none"]

Analyze ==
    \E content \in Contents, provider \in RequestedProviders :
        \E scr \in ScreeningOutcomes, ana \in AnalysisOutcomes :
            analyze(content, provider, scr, ana)

ClassifyEmail ==
    \E msg \in Contents, scr \in ScreeningOutcomes, ana \in AnalysisOutcomes :
        classify_email(msg, scr, ana)

\* The word count of the fetched page.
PageWords == { 600 }

FetchAndDistill ==
    \E bookmark \in Contents, word_count \in PageWords, ana \in AnalysisOutcomes :
        fetch_and_distill(bookmark, word_count, ana)

NextRouter == Analyze \/ ClassifyEmail \/ FetchAndDistill

SpecRouter == InitRouter /\ [][NextRouter]_vars

-----------------------------------------------------------------------------
(* The plain pass-through: requests that name their provider               *)

\* Provider names a request may carry: the members of the enumeration and a
\* name outside it (the field is a plain str, main.py 164, 186).
NamedProviders == LLMProvider \cup {"mistral"}

\* POST /llm/complete (main.py 169-183): one llm_router.complete with the
\* provider of the request; any exception becomes a 500 response.
complete_endpoint(provider, outcome) ==
    LET r == complete(settings, provider, "complete", "prompt", outcome)
    IN  /\ llm_log' = r.log
        /\ llm_out' = [op |-> "complete", provider |-> provider,
                       outcome |-> outcome, raised |-> r.raised,
                       status |-> IF r.raised THEN 500 ELSE 200,
                       answered_by |-> r.provider]
        /\ UNCHANGED settings /\ UNCHANGED ledgerVars

\* GET /llm/test (main.py 185-197): the same pass-through with a fixed
\* prompt.
test_llm(provider, outcome) ==
    LET r == complete(settings, provider, "test", "hello", outcome)
    IN  /\ llm_log' = r.log
        /\ llm_out' = [op |-> "test", provider |-> provider,
                       outcome |-> outcome, raised |-> r.raised,
                       status |-> IF r.raised THEN 500 ELSE 200,
                       answered_by |-> r.provider]
        /\ UNCHANGED settings /\ UNCHANGED ledgerVars

\* The screening text of clean content.
CleanScreening == { Answers(<< "C", "L", "E", "A", "N" >>) }

CompleteRequest ==
    \E provider \in NamedProviders, outcome \in AnalysisOutcomes :
        complete_endpoint(provider, outcome)

TestRequest ==
    \E provider \in NamedProviders, outcome \in AnalysisOutcomes :
        test_llm(provider, outcome)

\* POST /llm/analyze with a named provider, on content screened clean.
AnalyzeNamed ==
    \E content \in Contents, provider \in NamedProviders :
        \E scr \in CleanScreening, ana \in AnalysisOutcomes :
            analyze(content, provider, scr, ana)

NextComplete == CompleteRequest \/ TestRequest \/ AnalyzeNamed

SpecComplete == InitRouter /\ [][NextComplete]_vars

-----------------------------------------------------------------------------
(* The classifier and the digest on every kind of model output: the         *)
(* specification SpecClassify                                               *)

\* The settings the classifier runs under: the cloud provider configured or
\* not, and a default provider that is registered or not.
ClassifySettings ==
    { cfg \in AllSettings : /\ cfg.default_provider \in {"ollama", "claude"}
                            /\ cfg.high_quality_provider = "claude"
                            /\ ~cfg.gemini_api_key }

ClassifyScreening ==
    { Raises, Answers(MARKER), Answers(<< "C", "L", "E", "A", "N" >>) }

ParseOutcomes == {Raises} \cup { Answers(t) : t \in ParseTexts }

Messages == { "m1", "m2" }

MessageLists == { << "m1" >>, << "m1", "m2" >> }

\* The analysis outcomes of the messages of a batch.
BatchOutcomes ==
    { Raises, Answers("json_object"), Answers("json_array"), Answers("not_json") }

\* The word counts of the fetched pages.
WordCounts == { 0, WordsPerMinute - 1, WordsPerMinute, 2 * WordsPerMinute + 100 }

InitClassify ==
    /\ batches = << >>
    /\ items = << >>
    /\ actions = << >>
    /\ calls = << >>
    /\ lastOp = [op |-> "none"]
    /\ sessions = << >>
    /\ settings \in ClassifySettings
    /\ llm_log = << >>
    /\ llm_out = [op |-> "none"]

ClassifyOne ==
    \E msg \in Messages, scr \in ClassifyScreening, ana \in ParseOutcomes :
        classify_email(msg, scr, ana)

BatchClassify ==
    \E messages \in MessageLists :
        \E outs \in [1..Len(messages) -> ClassifyScreening \X BatchOutcomes] :
            batch_classify(messages, outs)

Distill ==
    \E bookmark \in Contents, word_count \in WordCounts, ana \in ParseOutcomes :
        fetch_and_distill(bookmark, word_count, ana)

NextClassify == ClassifyOne \/ BatchClassify \/ Distill

SpecClassify == InitClassify /\ [][NextClassify]_vars

-----------------------------------------------------------------------------
(* Classified mail stored for review: the specification SpecIntake          *)

\* The settings mail is taken in under: the cloud provider configured or not.
IntakeSettings ==
    { cfg \in AllSettings : /\ cfg.default_provider = "ollama"
                            /\ cfg.high_quality_provider = "claude"
                            /\ ~cfg.gemini_api_key }

IntakeOutcomes == { Raises, Answers("json_object"), Answers("not_json") }

InitIntake ==
    /\ batches = << >>
    /\ items = << >>
    /\ actions = << >>
    /\ calls = << >>
    /\ lastOp = [op |-> "none"]
    /\ sessions = << >>
    /\ settings \in IntakeSettings
    /\ llm_log = << >>
    /\ llm_out = [op |-> "none"]

\* One message is classified.
IntakeClassify ==
    \E msg \in Messages, scr \in ClassifyScreening, ana \in IntakeOutcomes :
        batch_classify(<< msg >>, << << scr, ana >> >>)

\* The results of the last batch_classify are stored as a review batch.
Store ==
    /\ llm_out.op = "batch_classify"
    /\ \E emails \in EmailDicts :
           create_email_review_batch(llm_out.results, emails)

NextIntake == IntakeClassify \/ Store

SpecIntake == InitIntake /\ [][NextIntake]_vars

-----------------------------------------------------------------------------
(* The ledger with passes that apply the approved, unexecuted actions: the *)
(* specification SpecFrame                                                 *)

\* The classification lists the batches are created from: one has names
\* ACTION_MAP does not map, one is what batch_classify returns for a message
\* whose classification failed.
FrameInputs ==
    { << Cls("m1", "JUNK", <<"keep", "snooze", "archive">>, FALSE) >>,
      << Cls("m2", "PERSONAL", <<"label">>, TRUE) >>,
      << ErrorResult("m2", "AttributeError") >> }

CreateFrame ==
    \E classifications \in FrameInputs, emails \in EmailDicts :
        create_email_review_batch(classifications, emails)

\* A pass on any batch, on the rows it is written for (see LoopPass).
PassOn ==
    /\ Len(calls) < MaxCalls
    /\ \E batch_id \in BatchIds :
           \E oracle \in [Eligible(batch_id) -> 0..1] : LoopPass(batch_id, oracle)

\* approve_batch on any batch id: everything approved, everything
\* rejected, or a list of ids that are not of the batch, alone or with all
\* ids of the batch.
ApproveFrame ==
    \E batch_id \in 1..(Len(batches) + 1) :
        \/ \E reject_all \in BOOLEAN : approve_batch(batch_id, NoIds, reject_all)
        \/ \E ids \in { IdList(ForeignIds(batch_id)),
                        IdList(ActionsOf(batch_id) \cup ForeignIds(batch_id)) } :
               approve_batch(batch_id, ids, FALSE)

NextFrame == CreateFrame \/ ApproveFrame \/ PassOn

SpecFrame == Init /\ [][NextFrame]_vars

-----------------------------------------------------------------------------
(* screen_then_analyze step by step: two requests, each on its own item,   *)
(* interleaved at their awaits (router.py 74, 84, 94): the specification   *)
(* SpecOrder                                                               *)

\* A request that has not yet made a call.
NewRequest(content) ==
    [pc |-> "start", content |-> content, analysis_provider |-> None,
     sensitive |-> FALSE, kept_local |-> FALSE]

\* The screening call is issued (router.py 74-78).
call_screening(r) ==
    /\ sessions[r].pc = "start"
    /\ LET me == sessions[r]
           p == get_provider(settings, ScreeningProviderArg(settings))
       IN  IF p.raised
           THEN /\ sessions' = [sessions EXCEPT ![r].pc = "raised"]
                /\ UNCHANGED llm_log
           ELSE /\ sessions' = [sessions EXCEPT ![r].pc = "screening"]
                /\ llm_log' = Append(llm_log,
                                     [ev |-> "call", req |-> r, pass |-> "screening",
                                      provider |-> p.provider, content |-> me.content,
                                      raised |-> FALSE])
    /\ UNCHANGED ledgerVarsButSessions /\ UNCHANGED <<settings, llm_out>>

\* The awaited screening call returns or raises; the verdict is taken from
\* its text (router.py 80).
screening_returns(r, scr) ==
    /\ sessions[r].pc = "screening"
    /\ llm_log' = Append(llm_log,
                         [ev |-> "return", req |-> r, pass |-> "screening",
                          provider |-> "ollama", content |-> sessions[r].content,
                          raised |-> scr.raised])
    /\ sessions' = IF Propagates(scr)
                   THEN [sessions EXCEPT ![r].pc = "raised"]
                   ELSE [sessions EXCEPT ![r].pc = "screened",
                                         ![r].sensitive = is_sensitive(scr.content)]
    /\ UNCHANGED ledgerVarsButSessions /\ UNCHANGED <<settings, llm_out>>

\* A variant of ScreeningKnown: the analysis does not wait for the
\* screening call to return.
ScreeningKnown_NotAwaited(req) == req.pc \in {"screening", "screened"}

\* Whether the request may go on to its analysis call: the screening call
\* is awaited (router.py 74) and its text is read (router.py 80) before
\* either analysis call is reached.
ScreeningKnown(req) == req.pc = "screened"

\* The analysis call is issued (router.py 82-97).
call_analysis(r) ==
    /\ ScreeningKnown(sessions[r])
    /\ LET me == sessions[r]
           target == IF me.sensitive THEN "ollama"
                     ELSE AnalysisTarget(settings, me.analysis_provider)
           p == get_provider(settings, target)
       IN  IF p.raised
           THEN /\ sessions' = [sessions EXCEPT ![r].pc = "raised"]
                /\ UNCHANGED llm_log
           ELSE /\ sessions' = [sessions EXCEPT
                                   ![r].pc = "analysis",
                                   ![r].kept_local = KeptLocal(me.sensitive, target)]
                /\ llm_log' = Append(llm_log,
                                     [ev |-> "call", req |-> r, pass |-> "analysis",
                                      provider |-> p.provider, content |-> me.content,
                                      raised |-> FALSE])
    /\ UNCHANGED ledgerVarsButSessions /\ UNCHANGED <<settings, llm_out>>

\* The awaited analysis call returns or raises; the dict is returned
\* (router.py 99-103).
analysis_returns(r, ana) ==
    /\ sessions[r].pc = "analysis"
    /\ llm_log' = Append(llm_log,
                         [ev |-> "return", req |-> r, pass |-> "analysis",
                          provider |-> llm_log[CHOOSE k \in DOMAIN llm_log :
                                                  /\ llm_log[k].req = r
                                                  /\ llm_log[k].ev = "call"
                                                  /\ llm_log[k].pass = "analysis"].provider,
                          content |-> sessions[r].content,
                          raised |-> ana.raised])
    /\ sessions' = [sessions EXCEPT ![r].pc = IF ana.raised THEN "raised" ELSE "done"]
    /\ UNCHANGED ledgerVarsButSessions /\ UNCHANGED <<settings, llm_out>>

InitOrder ==
    /\ batches = << >>
    /\ items = << >>
    /\ actions = << >>
    /\ calls = << >>
    /\ lastOp = [op |-> "none"]
    /\ sessions = << NewRequest("m1"), NewRequest("m2") >>
    /\ settings \in IntakeSettings
    /\ llm_log = << >>
    /\ llm_out = [op |-> "none"]

CallScreening == \E r \in DOMAIN sessions : call_screening(r)

ScreeningReturns ==
    \E r \in DOMAIN sessions, scr \in ClassifyScreening : screening_returns(r, scr)

CallAnalysis == \E r \in DOMAIN sessions : call_analysis(r)

AnalysisReturns ==
    \E r \in DOMAIN sessions, ana \in AnalysisOutcomes : analysis_returns(r, ana)

NextOrder == CallScreening \/ ScreeningReturns \/ CallAnalysis \/ AnalysisReturns

SpecOrder == InitOrder /\ [][NextOrder]_vars

-----------------------------------------------------------------------------
(* Properties of the ledger and the executor, checked under Spec           *)

MailCalls == { i \in 1..Len(calls) : calls[i].to = "gmail" }

\* C1: every call made to the mail capability was made for an action whose
\* approval flag was true, in a batch whose status was not PENDING, at the
\* moment of the call; no action with a false or unset flag is dispatched.
C1_DispatchOnlyApproved ==
    \A i \in MailCalls : calls[i].approved = PyTrue /\ calls[i].status # "pending"

\* A pass has returned on a batch that holds an approved action and an
\* action that is not approved, and no call was made for the latter.
C1_Witness ==
    /\ lastOp.op = "execute" /\ ~lastOp.raised
    /\ lastOp.batch_id \in BatchIds
    /\ \E id \in ActionsOf(lastOp.batch_id) : actions[id].approved = PyTrue
    /\ \E id \in ActionsOf(lastOp.batch_id) :
          /\ actions[id].approved # PyTrue
          /\ \A i \in 1..Len(calls) : calls[i].action_id # id

\* C2: over every sequence of passes and approvals, no action is dispatched
\* when its executed flag is already true, and each action is dispatched to
\* the mail capability at most once in total.
C2_DispatchAtMostOnce ==
    /\ \A i \in MailCalls : ~calls[i].executed
    /\ \A i, j \in MailCalls :
          (calls[i].action_id = calls[j].action_id
             /\ calls[i].nth = calls[j].nth) => i = j

\* Two passes in a row have returned on a batch that holds an approved
\* action, which was dispatched at most once.
C2_Witness ==
    /\ lastOp.op = "execute" /\ lastOp.again /\ ~lastOp.raised
    /\ lastOp.batch_id \in BatchIds
    /\ \E id \in ActionsOf(lastOp.batch_id) :
          /\ actions[id].approved = PyTrue
          /\ Cardinality({ i \in MailCalls : calls[i].action_id = id
                                              /\ calls[i].nth = 1 }) <= 1

\* C3: a pass processes exactly the actions of its batch that were approved
\* and not executed when it started, and each of them has executed = true
\* when the pass returns.
C3_PassProcessesEligible ==
    lastOp.op = "execute" =>
        /\ lastOp.selected = lastOp.eligible
        /\ ~lastOp.raised => \A id \in lastOp.eligible : actions[id].executed

\* C10: approve_batch with approved_action_ids = None and reject_all = false
\* leaves every action of the batch approved and the batch APPROVED.
C10_ApproveAll ==
    (lastOp.op = "approve" /\ ~lastOp.raised
       /\ lastOp.approved_action_ids.is_none /\ ~lastOp.reject_all) =>
        /\ \A id \in ActionsOf(lastOp.batch_id) : actions[id].approved = PyTrue
        /\ batches[lastOp.batch_id].status = "approved"

\* approve_batch(batch, None, false) has returned on a batch of two actions.
C10_Witness ==
    /\ lastOp.op = "approve" /\ ~lastOp.raised
    /\ lastOp.approved_action_ids.is_none /\ ~lastOp.reject_all
    /\ Cardinality(ActionsOf(lastOp.batch_id)) = 2
    /\ \A id \in ActionsOf(lastOp.batch_id) : actions[id].approved = PyTrue

\* C11: approve_batch with reject_all = true leaves every action of the
\* batch with approval flag false and the batch REJECTED, whatever
\* approved_action_ids is supplied with it.
C11_RejectAllOverrides ==
    (lastOp.op = "approve" /\ ~lastOp.raised /\ lastOp.reject_all) =>
        /\ \A id \in ActionsOf(lastOp.batch_id) : actions[id].approved = PyFalse
        /\ batches[lastOp.batch_id].status = "rejected"

\* approve_batch(batch, ids, true) has returned on a batch of two actions,
\* with an id list that names one of them; both are rejected.
C11_Witness ==
    /\ lastOp.op = "approve" /\ ~lastOp.raised /\ lastOp.reject_all
    /\ ~lastOp.approved_action_ids.is_none
    /\ Cardinality(ActionsOf(lastOp.batch_id)) = 2
    /\ \E id \in ActionsOf(lastOp.batch_id) : id \in lastOp.approved_action_ids.ids
    /\ \A id \in ActionsOf(lastOp.batch_id) : actions[id].approved = PyFalse
    /\ batches[lastOp.batch_id].status = "rejected"

AllFlags(batch_id, value) ==
    \A id \in ActionsOf(batch_id) : actions[id].approved = value

\* C12: approve_batch with an id list and reject_all = false sets each
\* action's flag to (its id is in the list), and the status to APPROVED if
\* every flag is then true, REJECTED if every flag is then false, PARTIAL
\* otherwise.
C12_ExplicitSet ==
    (lastOp.op = "approve" /\ ~lastOp.raised
       /\ ~lastOp.approved_action_ids.is_none /\ ~lastOp.reject_all) =>
        LET b == lastOp.batch_id
        IN  /\ \A id \in ActionsOf(b) :
                  actions[id].approved =
                      (IF id \in lastOp.approved_action_ids.ids THEN PyTrue ELSE PyFalse)
            /\ AllFlags(b, PyTrue) => batches[b].status = "approved"
            /\ AllFlags(b, PyFalse) => batches[b].status = "rejected"
            /\ (~AllFlags(b, PyTrue) /\ ~AllFlags(b, PyFalse)) =>
                  batches[b].status = "partial"

\* C13: the status of every batch, a batch without actions included, is
\* decided by the approval flags of its actions alone: PENDING when all are
\* unset, APPROVED when all are true, REJECTED when all are false, PARTIAL
\* when mixed; two batches with the same flags have the same status.
C13_StatusFromFlags ==
    \A b \in BatchIds :
        /\ batches[b].status =
              (IF AllFlags(b, None) THEN "pending"
               ELSE IF AllFlags(b, PyTrue) THEN "approved"
               ELSE IF AllFlags(b, PyFalse) THEN "rejected"
               ELSE "partial")
        /\ \A c \in BatchIds :
              (\E f \in [ActionsOf(b) -> ActionsOf(c)] :
                  /\ \A x, y \in ActionsOf(b) : f[x] = f[y] => x = y
                  /\ \A z \in ActionsOf(c) : \E x \in ActionsOf(b) : f[x] = z
                  /\ \A x \in ActionsOf(b) : actions[x].approved = actions[f[x]].approved)
                => batches[b].status = batches[c].status

\* C14: a status other than PENDING is final: no approve_batch call changes
\* it, and no operation returns it to PENDING.
C14_StatusTerminal ==
    [][\A b \in BatchIds :
          batches[b].status # "pending" => batches'[b].status = batches[b].status]_vars

\* C20: right after create_email_review_batch commits, the new batch is
\* PENDING, each of its actions has approval unset, executed = false, no
\* execution timestamp and no error, and no outside call was made for it.
C20_FreshBatch ==
    lastOp.op = "create" =>
        /\ batches[lastOp.batch_id].status = "pending"
        /\ \A id \in ActionsOf(lastOp.batch_id) :
              /\ actions[id].approved = None
              /\ ~actions[id].executed
              /\ actions[id].executed_at = None
              /\ actions[id].error = None
              /\ \A i \in 1..Len(calls) : calls[i].action_id # id

\* A second batch, of two actions, has just been created after the first
\* batch was approved.
C20_Witness ==
    /\ lastOp.op = "create" /\ lastOp.batch_id = 2
    /\ batches[1].status = "approved"
    /\ Cardinality(ActionsOf(2)) = 2
    /\ \A id \in ActionsOf(2) : actions[id].approved = None /\ ~actions[id].executed

\* The classifications of the last creation run that were not skipped.
Kept(classifications, emails) ==
    SelectSeq(classifications, LAMBDA c : c.email_id \in emails)

\* C22: a batch created from a non-empty classification list is never
\* committed without proposed actions; a classification whose email_id has
\* no message creates no ContentItem and no ProposedAction.
C22_NoEmptyBatch ==
    /\ \A b \in BatchIds : batches[b].item_count > 0 => ActionsOf(b) # {}
    /\ lastOp.op = "create" =>
          LET kept == Kept(lastOp.classifications, lastOp.emails)
          IN  /\ Len(items) = lastOp.items_before + Len(kept)
              /\ \A k \in 1..Len(kept) :
                    items[lastOp.items_before + k].external_id = kept[k].email_id
              /\ \A id \in ActionsOf(lastOp.batch_id) :
                    actions[id].content_item_id > lastOp.items_before

\* C23: every ProposedAction refers to a ContentItem that exists and to a
\* ReviewBatch that exists, and the ContentItem was added in the creation
\* run of that batch.
C23_ActionReferences ==
    \A id \in ActionIds :
        /\ actions[id].batch_id \in BatchIds
        /\ actions[id].content_item_id \in 1..Len(items)
        /\ items[actions[id].content_item_id].created_in = actions[id].batch_id

\* Two batches hold actions; a pass has run; the action of the second batch
\* refers to an item added in the second creation run.
C23_Witness ==
    /\ Len(batches) = 2
    /\ ActionsOf(1) # {} /\ ActionsOf(2) # {}
    /\ lastOp.op = "execute"
    /\ \E id \in ActionsOf(2) :
          /\ actions[id].content_item_id \in 1..Len(items)
          /\ items[actions[id].content_item_id].created_in = 2

-----------------------------------------------------------------------------
(* Properties of batch creation, checked under SpecCreate                  *)

\* C21: the batch summary is "Email batch: " followed by one part per
\* distinct category of the classifications that were not skipped, each
\* with the number of those classifications, the parts in alphabetical
\* order of the category names as displayed.
C21_BatchSummary ==
    lastOp.op = "create" =>
        LET kept == Kept(lastOp.classifications, lastOp.emails)
            cats == { kept[k].category : k \in 1..Len(kept) }
            summary == batches[lastOp.batch_id].batch_summary
            parts == summary.parts
        IN  /\ summary.prefix = "Email batch: "
            /\ Len(parts) = Cardinality(cats)
            /\ \A cat \in cats :
                  \E i \in 1..Len(parts) :
                      /\ parts[i].name = Lower(Chars(cat))
                      /\ parts[i].count =
                            Cardinality({ k \in 1..Len(kept) : kept[k].category = cat })
            /\ \A i, j \in 1..Len(parts) :
                  i < j => ~StrLess(parts[j].name, parts[i].name)

\* The sum of the counts in the parts of a batch summary.
RECURSIVE SumCounts(_)
SumCounts(parts) ==
    IF parts = << >> THEN 0 ELSE Head(parts).count + SumCounts(Tail(parts))

\* C38: the item_count of a created batch is the number of classifications
\* passed in, those skipped for want of a message included; the number of
\* ContentItems stored for the batch and the sum of the counts in its
\* summary are both the number of classifications that were not skipped.
C38_ItemCount ==
    lastOp.op = "create" =>
        LET batch == batches[lastOp.batch_id]
            kept == Kept(lastOp.classifications, lastOp.emails)
        IN  /\ batch.item_count = Len(lastOp.classifications)
            /\ Len(items) - lastOp.items_before = Len(kept)
            /\ SumCounts(batch.batch_summary.parts) = Len(kept)
            /\ Len(kept) <= batch.item_count

\* A batch whose item_count exceeds its stored items and the sum of its
\* summary, which are not zero.
C38_Witness ==
    /\ lastOp.op = "create"
    /\ Len(items) - lastOp.items_before > 0
    /\ batches[lastOp.batch_id].item_count > Len(items) - lastOp.items_before
    /\ batches[lastOp.batch_id].item_count
           > SumCounts(batches[lastOp.batch_id].batch_summary.parts)

-----------------------------------------------------------------------------
(* Properties of the executor's loop, checked under SpecLoop               *)

\* The last request was a pass of the loop.
LoopDone == lastOp.op = "pass"

TodoSet == { lastOp.todo[i] : i \in 1..Len(lastOp.todo) }

\* The outside calls logged for an action, in order.
CallsFor(id) == SelectSeq(calls, LAMBDA c : c.action_id = id)

\* The actions of the last pass whose ContentItem was not found.
MissingIn(S) == { id \in S : ~ItemFound(items, lastOp.pre[id]) }

\* What the dispatch of an action of the last pass did.
Dispatch(id) ==
    execute_single(lastOp.pre[id], items[lastOp.pre[id].content_item_id],
                   lastOp.oracle[id])

\* The actions of the last pass whose dispatch raised.
RaisedIn(S) == { id \in S \ MissingIn(S) : Dispatch(id).raised }

\* C15: when the ContentItem of a selected action is not found, no outside
\* call is made for the action, it ends with executed = true and a
\* non-empty error, it is counted as failed and not as succeeded, and the
\* pass does not raise.
C15_MissingItem ==
    LoopDone =>
        /\ ~lastOp.raised
        /\ \A id \in MissingIn(TodoSet) :
              /\ CallsFor(id) = << >>
              /\ actions[id].executed
              /\ actions[id].error \notin {None, ""}
        /\ lastOp.summary.failed =
              Cardinality(MissingIn(TodoSet)) + Cardinality(RaisedIn(TodoSet))
        /\ lastOp.summary.succeeded =
              Cardinality(TodoSet \ (MissingIn(TodoSet) \cup RaisedIn(TodoSet)))

\* A pass over two actions has returned: the ContentItem of the first was
\* not found, the second was dispatched.
C15_Witness ==
    /\ LoopDone /\ Len(lastOp.todo) = 2
    /\ lastOp.todo[1] \in MissingIn(TodoSet)
    /\ actions[lastOp.todo[1]].executed
    /\ actions[lastOp.todo[1]].error = "Content item not found"
    /\ CallsFor(lastOp.todo[2]) # << >>
    /\ lastOp.summary.failed = 1 /\ lastOp.summary.succeeded = 1

\* C16: when the dispatch of an action raises, the exception is caught, its
\* text becomes the action's error, the action is marked executed and
\* counted as failed, not as succeeded; no pass dispatches an action that is
\* already executed, so the action is not tried again.
C16_DispatchFailure ==
    /\ LoopDone =>
          /\ ~lastOp.raised
          /\ \A id \in RaisedIn(TodoSet) :
                /\ actions[id].executed
                /\ actions[id].error = Dispatch(id).error
                /\ \E k \in 1..Len(lastOp.summary.errors) :
                      lastOp.summary.errors[k] =
                          [action_id |-> id, error |-> Dispatch(id).error]
          /\ lastOp.summary.failed >= Cardinality(RaisedIn(TodoSet))
          /\ lastOp.summary.succeeded <= Cardinality(TodoSet \ RaisedIn(TodoSet))
    /\ \A i \in 1..Len(calls) : ~calls[i].executed
    /\ \A i, j \in 1..Len(calls) :
          (calls[i].action_id = calls[j].action_id /\ calls[i].nth = calls[j].nth)
             => i = j

\* An action whose dispatch raised in an earlier pass is executed with its
\* error, and a later pass over another action has left it alone.
C16_Witness ==
    /\ LoopDone /\ lastOp.todo # << >>
    /\ \E id \in ActionIds \ TodoSet :
          /\ actions[id].executed
          /\ actions[id].error = "call failed"
          /\ Len(CallsFor(id)) = 1

\* The pass of the loop over one action alone, from the state before the
\* last pass.
Alone(id) ==
    ExecLoop(<<id>>, lastOp.oracle, items, batches, lastOp.pre, << >>,
             NewSummary(<<id>>))

\* C17: the failure of one action does not stop the pass: every action
\* selected is handled, and its outcome (calls made, executed flag, error,
\* succeeded or failed) is what it is in a pass where no other action fails.
C17_FailureDoesNotStopPass ==
    LoopDone =>
        /\ \A id \in TodoSet :
              /\ actions[id] = Alone(id).actions[id]
              /\ CallsFor(id) = Alone(id).calls
        /\ lastOp.summary.succeeded =
              Cardinality({ id \in TodoSet : Alone(id).summary.succeeded = 1 })
        /\ lastOp.summary.failed =
              Cardinality({ id \in TodoSet : Alone(id).summary.failed = 1 })

\* A pass over two actions has returned: the dispatch of the first raised,
\* the second was dispatched and succeeded.
C17_Witness ==
    /\ LoopDone /\ Len(lastOp.todo) = 2
    /\ lastOp.todo[1] \in RaisedIn(TodoSet)
    /\ actions[lastOp.todo[2]].executed
    /\ actions[lastOp.todo[2]].error = None
    /\ CallsFor(lastOp.todo[2]) # << >>
    /\ lastOp.summary.failed = 1 /\ lastOp.summary.succeeded = 1

HandledKinds == {"archive", "delete", "mark_read", "label", "unsubscribe", "draft_reply"}

FailedIn == MissingIn(TodoSet) \cup RaisedIn(TodoSet)

-----------------------------------------------------------------------------
(* Properties of a pass step by step, checked under SpecPass               *)

\* The actions the pass in progress, or the last pass, selected.
PassIds == { sessions[1].ids[i] : i \in 1..Len(sessions[1].ids) }

\* The actions of that pass the loop has been through.
PassHandled == PassIds \ { sessions[1].todo[i] : i \in 1..Len(sessions[1].todo) }

\* C29: the stored executed flags, timestamps and errors of the actions of
\* a pass change only at the commit that ends it: until then, and for good
\* when the pass is interrupted, none of its actions is stored as executed;
\* after it, all of them are.
C29_PassIsAtomic ==
    sessions # << >> =>
        /\ sessions[1].pc \in {"loop", "interrupted"} =>
              \A id \in PassIds :
                  /\ ~actions[id].executed
                  /\ actions[id].executed_at = None
                  /\ actions[id].error = None
        /\ sessions[1].pc = "done" =>
              \A id \in PassIds :
                  /\ actions[id] = sessions[1].acts[id]
                  /\ actions[id].executed
                  /\ actions[id].executed_at # None

\* A pass over two actions was interrupted after the first was dispatched:
\* the session held it as executed, the database holds neither as executed.
C29_Witness ==
    /\ sessions # << >> /\ sessions[1].pc = "interrupted"
    /\ Len(sessions[1].ids) = 2
    /\ Cardinality(PassHandled) = 1
    /\ \A id \in PassHandled : sessions[1].acts[id].executed /\ CallsFor(id) # << >>
    /\ \A id \in PassIds : ~actions[id].executed

-----------------------------------------------------------------------------
(* Properties of concurrent approvals, checked under SpecConc              *)

\* Both requests have committed.
BothDone ==
    sessions # << >> /\ \A r \in DOMAIN sessions : sessions[r].pc = "done"

\* The flags and the status request r leaves when it runs alone.
FlagsAlone(r) ==
    [id \in ActionsOf(sessions[r].batch_id) |->
        ApproveFlag(id, sessions[r].approved_action_ids, sessions[r].reject_all)]

StatusAlone(r) ==
    ApproveStatus(FlagsAlone(r), sessions[r].approved_action_ids, sessions[r].reject_all)

\* C19: two approval requests for one batch whose steps (read the batch,
\* read the actions, write and commit) interleave leave the flags and the
\* status that one of the two alone would have left, and a status that
\* agrees with the flags.
C19_ConcurrentApprovals ==
    BothDone =>
        /\ \E r \in DOMAIN sessions :
              /\ FlagsOf(1) = FlagsAlone(r)
              /\ batches[1].status = StatusAlone(r)
        /\ batches[1].status =
              (IF AllFlags(1, PyTrue) THEN "approved"
               ELSE IF AllFlags(1, PyFalse) THEN "rejected"
               ELSE "partial")

-----------------------------------------------------------------------------
(* Properties of the router, checked under SpecRouter                      *)

\* The last request went through screen_then_analyze.
Screened == llm_out.op \in {"analyze", "classify_email"}

\* The marker word occurs in the text in some letter case.
HasMarkerAnyCase(text) ==
    \E i \in 1..(Len(text) - Len(MARKER) + 1) :
        \A k \in 1..Len(MARKER) : UpperChar(text[i + k - 1]) = MARKER[k]

\* The provider the request asks for, else the high-quality setting.
RequestedTarget ==
    IF llm_out.analysis_provider \in {None, ""}
    THEN settings.high_quality_provider ELSE llm_out.analysis_provider

\* The cloud providers that are configured.
ConfiguredCloud ==
    (IF settings.claude_api_key THEN {"claude"} ELSE {})
        \cup (IF settings.gemini_api_key THEN {"gemini"} ELSE {})

AnalysisCalls == { i \in 1..Len(llm_log) : llm_log[i].pass = "analysis" }

\* C4: every screen_then_analyze request makes its screening call, first, to
\* the local provider, whatever the requested provider and the settings; no
\* other provider receives a screening prompt.
C4_ScreeningAlwaysLocal ==
    /\ \A i \in 1..Len(llm_log) :
          llm_log[i].pass = "screening" => llm_log[i].provider = "ollama"
    /\ Screened => /\ Len(llm_log) >= 1
                   /\ llm_log[1].pass = "screening"
                   /\ llm_log[1].provider = "ollama"

\* A request that names claude, with claude configured and set as default
\* and high-quality provider, was screened on the local provider.
C4_Witness ==
    /\ llm_out.op = "analyze" /\ llm_out.analysis_provider = "claude"
    /\ settings.claude_api_key
    /\ settings.default_provider = "claude"
    /\ settings.high_quality_provider = "claude"
    /\ llm_log[1].pass = "screening" /\ llm_log[1].provider = "ollama"
    /\ ~llm_out.r.raised

\* C5: when the screening text contains the marker in any letter case, the
\* analysis call goes to the local provider and the result has
\* kept_local = true.
C5_SensitiveStaysLocal ==
    (Screened /\ ~llm_out.scr.raised /\ HasMarkerAnyCase(llm_out.scr.content)) =>
        /\ AnalysisCalls = {2}
        /\ llm_log[2].provider = "ollama"
        /\ ~llm_out.r.raised => /\ llm_out.r.kept_local
                                /\ llm_out.r.analysis.provider = "ollama"

\* A request that names claude, with claude configured, whose screening
\* answered the marker in lower case, was analysed locally.
C5_Witness ==
    /\ llm_out.op = "analyze" /\ llm_out.analysis_provider = "claude"
    /\ settings.claude_api_key
    /\ ~llm_out.scr.raised
    /\ llm_out.scr.content = << "s", "e", "n", "s", "i", "t", "i", "v", "e" >>
    /\ ~llm_out.r.raised /\ llm_out.r.kept_local
    /\ llm_log[2].provider = "ollama"

\* C6: when the screening text does not contain the marker and the target
\* (the requested provider, else the high-quality setting) is a configured
\* cloud provider, the analysis call goes to that provider and the result
\* has kept_local = false.
C6_CleanGoesToCloud ==
    (Screened /\ ~llm_out.scr.raised /\ ~HasMarkerAnyCase(llm_out.scr.content)
       /\ RequestedTarget \in ConfiguredCloud) =>
        /\ AnalysisCalls = {2}
        /\ llm_log[2].provider = RequestedTarget
        /\ ~llm_out.r.raised => /\ ~llm_out.r.kept_local
                                /\ llm_out.r.analysis.provider = RequestedTarget

\* A clean request without a provider, with claude as the configured
\* high-quality provider and another default, was analysed by claude.
C6_Witness ==
    /\ llm_out.op = "classify_email"
    /\ settings.claude_api_key /\ settings.high_quality_provider = "claude"
    /\ settings.default_provider = "ollama"
    /\ ~llm_out.scr.raised /\ llm_out.scr.content = << "C", "L", "E", "A", "N" >>
    /\ ~llm_out.r.raised /\ ~llm_out.r.kept_local
    /\ llm_out.r.analysis.provider = "claude"

\* C7: in every result of screen_then_analyze, kept_local is true exactly
\* when the analysis call ran on the local provider.
C7_KeptLocalIffLocal ==
    (Screened /\ ~llm_out.r.raised) =>
        (llm_out.r.kept_local <=> llm_out.r.analysis.provider = "ollama")

\* C8: when the screening call fails, screen_then_analyze raises, makes no
\* analysis call to any provider and returns no result.
C8_ScreeningFailureFailsClosed ==
    (Screened /\ llm_out.scr.raised) =>
        /\ llm_out.r.raised
        /\ llm_out.r.at = "screening"
        /\ AnalysisCalls = {}
        /\ \A i \in 1..Len(llm_log) : llm_log[i].provider = "ollama"

\* The screening call failed for a request that names claude, with claude
\* configured; the request raised.
C8_Witness ==
    /\ llm_out.op = "analyze" /\ llm_out.analysis_provider = "claude"
    /\ settings.claude_api_key
    /\ llm_out.scr.raised /\ llm_out.r.raised
    /\ Len(llm_log) = 1

\* C9: a provider other than the local one receives raw content only after a
\* screening call for the same content, on the local provider, answered
\* without the marker; for email classification and bookmark distillation
\* alike, under every setting.
C9_CloudOnlyAfterCleanScreening ==
    \A i \in 1..Len(llm_log) :
        llm_log[i].provider # "ollama" =>
            \E j \in 1..(i - 1) :
                /\ llm_log[j].pass = "screening"
                /\ llm_log[j].provider = "ollama"
                /\ llm_log[j].content = llm_log[i].content
                /\ ~llm_log[j].response.raised
                /\ ~HasMarkerAnyCase(llm_log[j].response.content)

-----------------------------------------------------------------------------
(* Claims on the classifier and the digest (SpecClassify)                  *)

FailedAt(i) == Classified(llm_out.messages[i], llm_out.routed[i]).raised

\* Outcomes under which classify_email succeeds.
GoodOuts == << Answers(<< "C", "L", "E", "A", "N" >>), Answers("json_object") >>

\* The results of the last batch had message i met GoodOuts.
HadNotFailed(i) ==
    BatchLoop(settings, llm_out.messages, [llm_out.outs EXCEPT ![i] = GoodOuts],
              [results |-> << >>, routed |-> << >>, log |-> << >>]).results

\* C25: batch_classify returns one result per message, in the order of the
\* messages; the result of a message whose classification failed has the
\* category ERROR, and the results of the other messages are what they
\* would be had it not failed.
C25_OneResultPerMessage ==
    llm_out.op = "batch_classify"
    => /\ Len(llm_out.results) = Len(llm_out.messages)
       /\ \A i \in 1..Len(llm_out.messages) :
              /\ llm_out.results[i].email_id = llm_out.messages[i]
              /\ FailedAt(i)
                 => /\ llm_out.results[i].category = "ERROR"
                    /\ \A j \in 1..Len(llm_out.messages) \ {i} :
                           llm_out.results[j] = HadNotFailed(i)[j]

C25_Witness ==
    /\ llm_out.op = "batch_classify"
    /\ Len(llm_out.messages) = 2
    /\ FailedAt(1)
    /\ llm_out.results[1].category = "ERROR"
    /\ ~FailedAt(2)
    /\ llm_out.results[2].category = "JUNK"

\* C26: on a provider error, and on model output that is not the expected
\* object, fetch_and_distill does not raise and returns category "other",
\* the generated summary and read_time_minutes = max(1, word_count div 250).
C26_FallbackDigest ==
    (/\ llm_out.op = "fetch_and_distill"
     /\ \/ llm_out.provider_error
        \/ llm_out.ana.content # "json_object")
    => /\ ~llm_out.r.raised
       /\ llm_out.r.value.category = "other"
       /\ llm_out.r.value.summary = << "Content from ", llm_out.content >>
       /\ llm_out.r.value.read_time_minutes = ReadTime(llm_out.word_count)

-----------------------------------------------------------------------------
(* Claims on stored classifications (SpecIntake)                           *)

-----------------------------------------------------------------------------
(* Properties of the ledger with effective passes, checked under SpecFrame *)

\* The step is a request to the executor.
ExecutorStep == lastOp'.op = "pass"

\* C31: only approve_batch writes the approval flag of an existing action or
\* the status of an existing batch; a pass of the executor changes neither,
\* and changes no action of a batch other than the one it was given.
C31_ExecutorFrame ==
    [][/\ (\/ \E id \in ActionIds : actions'[id].approved # actions[id].approved
           \/ \E b \in BatchIds : batches'[b].status # batches[b].status)
          => lastOp'.op = "approve"
       /\ ExecutorStep
          => /\ batches' = batches
             /\ DOMAIN actions' = DOMAIN actions
             /\ \A id \in ActionIds :
                    /\ actions'[id].approved = actions[id].approved
                    /\ actions[id].batch_id # lastOp'.batch_id
                       => actions'[id] = actions[id]]_vars

\* A pass on batch 1 has executed an action while batch 2 holds an approved
\* action that is not executed.
C31_Witness ==
    /\ lastOp.op = "pass" /\ lastOp.batch_id = 1
    /\ \E id \in ActionsOf(1) : actions[id].executed /\ ~lastOp.pre[id].executed
    /\ \E id \in ActionsOf(2) : actions[id].approved = PyTrue /\ ~actions[id].executed

\* The suggested names that are names of an action kind.
KindNames == {"archive", "delete", "unsubscribe", "label", "draft_reply", "mark_read"}

\* The item of an action.
ItemOf(id) == items[actions[id].content_item_id]

\* C37: create_email_review_batch creates one action for each suggested
\* name that names an action kind and none for keep or any other name, so
\* the item of a message whose classification failed has no action, and no
\* call is ever made for it.
C37_OnlyMappedNames ==
    /\ lastOp.op = "create"
       => \A k \in 1..Len(lastOp.classifications) :
              LET cls_result == lastOp.classifications[k]
                  item == lastOp.items_before + k
              IN  { actions[id].action_type :
                        id \in { a \in ActionIds : actions[a].content_item_id = item } }
                  = { n \in KindNames :
                        \E i \in 1..Len(cls_result.suggested_actions) :
                            cls_result.suggested_actions[i] = n }
    /\ \A id \in ActionIds : ItemOf(id).category # "ERROR"
    /\ \A i \in 1..Len(calls) : ItemOf(calls[i].action_id).category # "ERROR"

\* A batch made of a failed classification has been approved and a pass on
\* it has returned.
C37_Witness ==
    /\ lastOp.op = "pass" /\ lastOp.batch_id \in BatchIds
    /\ batches[lastOp.batch_id].status = "approved"
    /\ \E i \in 1..Len(items) :
           items[i].category = "ERROR" /\ items[i].created_in = lastOp.batch_id

\* The id list of the last request without the ids that are not actions of
\* its batch.
OwnIds(request) ==
    IF request.approved_action_ids.is_none THEN NoIds
    ELSE IdList({ id \in request.approved_action_ids.ids \cap ActionIds :
                      actions[id].batch_id = request.batch_id })

\* C36: approve_batch on batch B changes the approval flags of B's actions
\* and B's status and nothing else: no executed flag or error, no action or
\* status of another batch; ids that are not of B have no effect; on a batch
\* id that does not exist it raises and changes nothing.
C36_ApproveFrame ==
    [][lastOp'.op = "approve"
       => LET B == lastOp'.batch_id
          IN  IF lastOp'.raised
              THEN B \notin BatchIds /\ UNCHANGED <<batches, items, actions, calls>>
              ELSE /\ B \in BatchIds
                   /\ UNCHANGED <<items, calls>>
                   /\ DOMAIN actions' = DOMAIN actions
                   /\ DOMAIN batches' = DOMAIN batches
                   /\ \A id \in ActionIds :
                          IF actions[id].batch_id = B
                          THEN /\ actions'[id] = [actions[id] EXCEPT
                                                     !.approved = actions'[id].approved]
                               /\ actions'[id].approved
                                      = ApproveFlag(id, OwnIds(lastOp'), lastOp'.reject_all)
                          ELSE actions'[id] = actions[id]
                   /\ \A b \in BatchIds :
                          IF b = B
                          THEN /\ batches'[b] = [batches[b] EXCEPT
                                                    !.status = batches'[b].status]
                               /\ batches'[b].status
                                      = ApproveStatus([id \in ActionsOf(B) |->
                                                          actions'[id].approved],
                                                      OwnIds(lastOp'), lastOp'.reject_all)
                          ELSE batches'[b] = batches[b]]_vars

\* approve_batch has returned on a batch that holds an executed action,
\* given a list that names an action of another batch, which is not
\* approved.
C36_Witness ==
    /\ lastOp.op = "approve" /\ ~lastOp.raised
    /\ ~lastOp.approved_action_ids.is_none
    /\ \E id \in ActionsOf(lastOp.batch_id) : actions[id].executed
    /\ \E id \in lastOp.approved_action_ids.ids \cap ActionIds :
           /\ actions[id].batch_id # lastOp.batch_id
           /\ actions[id].approved # PyTrue

-----------------------------------------------------------------------------
(* Properties of the order of the router's calls, checked under SpecOrder  *)

\* The k-th event is the issue of an analysis call.
AnalysisIssued(k) == llm_log[k].ev = "call" /\ llm_log[k].pass = "analysis"

\* Before the k-th event, the screening call of the same request on the
\* same content has returned.
ScreeningReturned(k) ==
    \E j \in 1..(k - 1) :
        /\ llm_log[j].ev = "return" /\ llm_log[j].pass = "screening"
        /\ llm_log[j].req = llm_log[k].req
        /\ llm_log[j].content = llm_log[k].content
        /\ ~llm_log[j].raised

\* C32: an analysis call for an item is issued only after the screening
\* call for that item has returned.
C32_ScreeningBeforeAnalysis ==
    \A k \in DOMAIN llm_log : AnalysisIssued(k) => ScreeningReturned(k)

\* The analysis call of one request has been issued while the screening
\* call of the other is still awaited.
C32_Witness ==
    /\ \E k \in DOMAIN llm_log : AnalysisIssued(k) /\ llm_log[k].req = 1
    /\ sessions[2].pc = "screening"

-----------------------------------------------------------------------------
(* Properties of an uninterrupted pass, checked under SpecRun              *)

\* A pass has selected its actions and has not returned.
PassRunning == IF sessions = << >> THEN FALSE ELSE sessions[1].pc = "loop"

\* The pass has returned its summary, and every action it selected is
\* executed.
PassReturned ==
    IF sessions = << >> THEN FALSE
    ELSE /\ sessions[1].pc = "done"
         /\ lastOp.op = "commit" /\ ~lastOp.raised
         /\ lastOp.summary.total = Len(sessions[1].ids)
         /\ \A id \in PassIds : actions[id].executed

\* C33: a pass that has started returns its summary, whatever each outside
\* call does, and every action it selected is then executed.
C33_PassCompletes == PassRunning ~> PassReturned

\* A pass has returned after one of its outside calls raised.
C33_Witness ==
    /\ PassReturned
    /\ sessions[1].ids # << >>
    /\ \E id \in PassIds : actions[id].error = "call failed"

-----------------------------------------------------------------------------
(* Properties of interleaved passes, checked under SpecRace                *)

\* Both passes have run their select, each before the other committed.
BothSelectedFirst ==
    \A r \in DOMAIN sessions :
        sessions[r].pc # "start" /\ ~sessions[r].other_committed

-----------------------------------------------------------------------------
(* Properties of the plain pass-through, checked under SpecComplete        *)

\* Whether the credentials of the configuration register the named provider:
\* the local one always, a cloud one with its key.
Registered(name) ==
    \/ name = "ollama"
    \/ name = "claude" /\ settings.claude_api_key
    \/ name = "gemini" /\ settings.gemini_api_key

PassThrough == llm_out.op \in {"complete", "test"}

\* C39: a pass-through request that names a provider which is not registered
\* raises and makes no provider call, where screen_then_analyze with that
\* name makes its analysis call to the local provider; a request that names
\* a registered provider makes exactly one call, to that provider, and the
\* local provider is registered under every configuration.
C39_NoSilentFallback ==
    /\ PassThrough /\ ~Registered(llm_out.provider) =>
           /\ llm_out.raised
           /\ llm_out.status = 500
           /\ llm_log = << >>
    /\ PassThrough /\ Registered(llm_out.provider) =>
           /\ Len(llm_log) = 1
           /\ llm_log[1].provider = llm_out.provider
           /\ llm_out.raised = llm_out.outcome.raised
    /\ llm_out.op = "analyze" /\ ~Registered(llm_out.analysis_provider) =>
           /\ Len(llm_log) = 2
           /\ llm_log[2].provider = "ollama"

\* A pass-through request naming a cloud provider without its key has
\* raised without a call.
C39_Witness ==
    /\ PassThrough
    /\ llm_out.provider = "claude"
    /\ ~settings.claude_api_key
    /\ llm_out.raised
    /\ llm_log = << >>

====
